---- MODULE Spec2Model ----
(***************************************************************************)
(* Model of the OPAQUE library frekui/opaque: the Diffie-Hellman group,    *)
(* the DH-OPRF, password registration (PwRegInit..PwReg3) and              *)
(* authentication (AuthInit..Auth3), driven as the tests drive them, with  *)
(* an attacker who changes fields of the messages in flight.               *)
(*                                                                         *)
(* Idealisations: SHA-256, HKDF, HMAC, RSASSA-PSS and AES-CBC are          *)
(* symbolic.  A hash is the tuple of its input, an HKDF chunk is the       *)
(* record of its input key material and offset, a MAC is the record of its *)
(* key and data, a signature is the record of the signing key and the      *)
(* signed digest, and a sealed envelope is the record of its key and       *)
(* plaintext.  The group arithmetic is computed, over a safe prime small   *)
(* enough to enumerate (the library uses the 2048-bit RFC 3526 prime).     *)
(***************************************************************************)
EXTENDS Integers, Sequences, FiniteSets, TLC

(***************************************************************************)
(* Bounds of the model.                                                    *)
(***************************************************************************)
\* private keys (r, k, x, y) are drawn from 1..MaxKey
MaxKey == 2
\* the attacker changes at most MaxTamper fields of the messages of one run
MaxTamper == 2

(***************************************************************************)
(* Go values: nil, math/big                                                *)
(***************************************************************************)
Nil == <<>>

\* no error
NoErr == ""

Abs(n) == IF n < 0 THEN 0 - n ELSE n

RECURSIVE BitLen(_)
\* big.Int.BitLen: the number of bits of |n|, 0 for 0
BitLen(n) == IF Abs(n) = 0 THEN 0 ELSE 1 + BitLen(Abs(n) \div 2)

RECURSIVE BigBytes(_)
\* big.Int.Bytes: the minimal big-endian encoding of |n|, empty for 0
BigBytes(n) ==
    IF Abs(n) = 0 THEN <<>>
    ELSE Append(BigBytes(Abs(n) \div 256), Abs(n) % 256)

RECURSIVE Exp(_, _, _)
\* big.Int.Exp(x, y, m) for m > 0: x**y mod m, 1 when y <= 0; the result is
\* in 0..m-1 also for a negative x
Exp(x, y, m) ==
    IF y <= 0 THEN 1 % m
    ELSE IF y % 2 = 0 THEN Exp((x * x) % m, y \div 2, m)
    ELSE ((x % m) * Exp((x * x) % m, y \div 2, m)) % m

\* big.Int.ModInverse(z, m) for z invertible modulo m
ModInverse(z, m) == CHOOSE i \in 1..(m - 1) : (i * z) % m = 1

RECURSIVE Zeros(_)
\* make([]byte, n)
Zeros(n) == IF n <= 0 THEN <<>> ELSE <<0>> \o Zeros(n - 1)

(***************************************************************************)
(* internal/pkg/dh: the group Z^*_p                                        *)
(***************************************************************************)
\* Group.P: a safe prime (263 = 2 * 131 + 1) standing for the RFC 3526 prime
P == 263
\* Group.G
G == 2

\* Group.Bytes that returns the bytes of z without the padding
GroupBytes_NoPadding(p, x) ==
    LET z == x % p
    IN  BigBytes(z)

\* Group.Bytes of the group with modulus p: x mod p, big-endian, left-padded
\* to ceil(bitlen(p)/8) bytes
GroupBytes(p, x) ==
    LET z == x % p
        b == BigBytes(z)
        bytelen == (BitLen(p) + 7) \div 8
        padLen == bytelen - Len(b)
    IN  Zeros(padLen) \o b

\* dhGroup.Bytes(x), dhGroup the group Rfc3526_2048
Bytes(x) == GroupBytes(P, x)

\* dhgroup.Bytes of package opaque, g the struct with p and bitLen:
\* copy(res[len(res)-padLen:], b) writes at most padLen bytes of b, from
\* index len(res)-padLen on; the slice expression panics when padLen < 0
dhgroupBytes(g, x) ==
    LET z == x % g.p
        b == BigBytes(z)
        n == g.bitLen \div 8
        padLen == n - Len(b)
        m == IF padLen < Len(b) THEN padLen ELSE Len(b)
    IN  IF padLen < 0
        THEN [panic |-> "slice bounds out of range", out |-> Nil]
        ELSE [panic |-> NoErr,
              out |-> [i \in 1..n |->
                         IF i > n - padLen /\ i <= n - padLen + m
                         THEN b[i - (n - padLen)]
                         ELSE 0]]

\* IsInSmallSubgroup with the first test only
IsInSmallSubgroup_OnlyOne(x, p) == x = 1

\* IsInSmallSubgroup(x, p)
IsInSmallSubgroup(x, p) ==
    IF x = 1 THEN TRUE
    ELSE IF Exp(x, 2, p) = 1 THEN TRUE
    ELSE FALSE

\* IsInGroup(x, p)
IsInGroup(x, p) ==
    IF ~(0 < x) \/ ~(x < p) THEN FALSE ELSE TRUE

\* the values GeneratePrivateKey can return, within the bound
PrivateKeys == 1..MaxKey

\* GeneratePublicKey(g, privKey)
GeneratePublicKey(privKey) == Exp(G, privKey, P)

(***************************************************************************)
(* Symbolic primitives                                                     *)
(***************************************************************************)
\* hasher(): SHA-256 of the concatenation of the writes
Sha256(input) == [sha256 |-> input]

\* hkdf.New(hasher, ikm, nil, nil), len bytes read at offset off
HkdfRead(ikm, off, len) == [ikm |-> ikm, off |-> off, len |-> len]

\* b[:n] of a digest
Prefix(b, n) == [of |-> b, len |-> n]

\* hmac.New(hasher, key) over data
Hmac(key, data) == [key |-> key, data |-> data, flip |-> FALSE]

\* an RSA private key is its identity; privKey.PublicKey
PublicKey(priv) == [pub |-> priv]

\* rsa.SignPSS(randr, priv, hasherId, digest, nil)
SignPSS(priv, digest) == [signer |-> priv, digest |-> digest, flip |-> FALSE]

\* rsa.VerifyPSS(pub, hasherId, digest, sig, nil): the error it returns
VerifyPSS(pub, digest, sig) ==
    IF /\ sig # Nil
       /\ ~sig.flip
       /\ PublicKey(sig.signer) = pub
       /\ sig.digest = digest
    THEN NoErr
    ELSE "crypto/rsa: verification error"

\* pem.EncodeToMemory(&pem.Block{Type: type, Bytes: der})
PemEncode(type, der) == [Type |-> type, Bytes |-> der]

\* x509.MarshalPKCS1PrivateKey
MarshalPKCS1PrivateKey(priv) == [der |-> "PKCS1PrivateKey", key |-> priv]

\* x509.MarshalPKCS1PublicKey
MarshalPKCS1PublicKey(pub) == [der |-> "PKCS1PublicKey", key |-> pub]

\* SharedSecret with the peer's public key left out of the exponentiation
SharedSecret_OwnKey(privKey, otherPubKey) ==
    LET s == Exp(G, privKey, P)
    IN  Sha256(BigBytes(s))

\* SharedSecret(g, privKey, otherPubKey)
SharedSecret(privKey, otherPubKey) ==
    LET s == Exp(otherPubKey, privKey, P)
    IN  Sha256(BigBytes(s))

(***************************************************************************)
(* internal/pkg/authenc.  A byte string is a sequence of bytes, each byte a *)
(* record: [b |-> n] is the byte n; the n bytes of a symbolic value (a      *)
(* cipher block, a MAC) are a head byte carrying the value, followed by     *)
(* n-1 continuation bytes, so that slicing, lengths and byte flips are      *)
(* computed as on the real bytes.  A PEM block is one byte of a plaintext.  *)
(* A panic is returned as an error whose text starts with "panic: ".       *)
(***************************************************************************)
\* aes.BlockSize, ciph.BlockSize()
BlockSize == 16
\* hasher().Size()
TagSize == 32

\* the 16 bytes AuthEnc reads from randr, each of them n
RandIV(n) == [j \in 1..BlockSize |-> [b |-> n]]

\* the byte n
Byte(n) == [b |-> n]

\* the n bytes of the symbolic value content
Chunk(content, n) ==
    <<[head |-> content]>> \o [j \in 1..(n - 1) |-> [cont |-> j + 1]]

\* int(b) of a byte of a decrypted block; a byte that is no padding byte
\* reads as 255
ByteVal(x) == IF "b" \in DOMAIN x THEN x.b ELSE 255

\* one block of cipher.NewCBCEncrypter(ciph, iv).CryptBlocks: the encryption
\* under cbcKey of the plaintext block chained to the previous cipher block
EncryptBlock(cbcKey, prev, pt) ==
    Chunk([cbc |-> cbcKey, prev |-> prev, pt |-> pt], BlockSize)

RECURSIVE CBCEncrypt(_, _, _)
\* CryptBlocks of a CBC encrypter whose chaining value is prev, over the
\* blocks of src
CBCEncrypt(cbcKey, prev, src) ==
    IF Len(src) < BlockSize THEN <<>>
    ELSE LET c == EncryptBlock(cbcKey, prev, SubSeq(src, 1, BlockSize))
         IN  c \o CBCEncrypt(cbcKey, c, SubSeq(src, BlockSize + 1, Len(src)))

\* one block of cipher.NewCBCDecrypter: the plaintext block when c is a
\* cipher block made under cbcKey and chained to prev, 16 unpredictable bytes
\* otherwise
DecryptBlock(cbcKey, prev, c) ==
    IF /\ "head" \in DOMAIN c[1]
       /\ "cbc" \in DOMAIN c[1].head
       /\ c = Chunk(c[1].head, BlockSize)
       /\ c[1].head.cbc = cbcKey
       /\ c[1].head.prev = prev
    THEN c[1].head.pt
    ELSE [j \in 1..BlockSize |-> Byte(255)]

RECURSIVE CBCDecrypt(_, _, _)
\* CryptBlocks of a CBC decrypter whose chaining value is prev
CBCDecrypt(cbcKey, prev, src) ==
    IF Len(src) < BlockSize THEN <<>>
    ELSE LET c == SubSeq(src, 1, BlockSize)
         IN  DecryptBlock(cbcKey, prev, c)
             \o CBCDecrypt(cbcKey, c, SubSeq(src, BlockSize + 1, Len(src)))

\* addPadding adding no block of padding to an input that fills its blocks
addPadding_NoFullBlock(blockSize, input) ==
    LET outLen == blockSize * ((Len(input) + blockSize - 1) \div blockSize)
        b == (blockSize - (Len(input) % blockSize)) % 256
    IN  input \o [i \in 1..(outLen - Len(input)) |-> Byte(b)]

\* addPadding(blockSize, input)
addPadding(blockSize, input) ==
    LET outLen == blockSize * (Len(input) \div blockSize + 1)
        b == (blockSize - (Len(input) % blockSize)) % 256
    IN  input \o [i \in 1..(outLen - Len(input)) |-> Byte(b)]

\* removePadding that leaves the last padding byte in place
removePadding_OffByOne(blockSize, input) ==
    IF Len(input) % blockSize # 0
    THEN [panic |-> "removePadding: Input length is not a multiple of block size",
          out |-> Nil]
    ELSE IF Len(input) = 0
    THEN [panic |-> "removePadding: Empty input", out |-> Nil]
    ELSE LET b == ByteVal(input[Len(input)])
         IN  IF b > blockSize
             THEN [panic |-> "removePadding: Invalid padding", out |-> Nil]
             ELSE [panic |-> NoErr,
                   out |-> SubSeq(input, 1, Len(input) - b + 1)]

\* removePadding(blockSize, input)
removePadding(blockSize, input) ==
    IF Len(input) % blockSize # 0
    THEN [panic |-> "removePadding: Input length is not a multiple of block size",
          out |-> Nil]
    ELSE IF Len(input) = 0
    THEN [panic |-> "removePadding: Empty input", out |-> Nil]
    ELSE LET b == ByteVal(input[Len(input)])
         IN  IF b > blockSize
             THEN [panic |-> "removePadding: Invalid padding", out |-> Nil]
             ELSE [panic |-> NoErr,
                   out |-> SubSeq(input, 1, Len(input) - b)]

\* AuthEnc appending only the first half of the tag
AuthEnc_HalfTag(iv, key, plaintext) ==
    IF key.len # 16 THEN [err |-> "Got key length, expected 16", out |-> Nil]
    ELSE
    LET cbcKey == HkdfRead(key, 0, 16)
        hmacKey == HkdfRead(key, 16, 16)
        numBlocks == Len(plaintext) \div BlockSize + 1
        body == CBCEncrypt(cbcKey, iv,
                           SubSeq(plaintext, 1, (numBlocks - 1) * BlockSize))
        lastBlock == addPadding(BlockSize,
                        SubSeq(plaintext, (numBlocks - 1) * BlockSize + 1,
                               Len(plaintext)))
        chain == IF body = <<>> THEN iv
                 ELSE SubSeq(body, Len(body) - BlockSize + 1, Len(body))
        res == iv \o body \o CBCEncrypt(cbcKey, chain, lastBlock)
        authtag == Chunk(Hmac(hmacKey, res), TagSize)
    IN  [err |-> NoErr, out |-> res \o SubSeq(authtag, 1, TagSize \div 2)]

\* AuthEnc(randr, key, plaintext), iv the 16 bytes read from randr
AuthEnc(iv, key, plaintext) ==
    IF key.len # 16 THEN [err |-> "Got key length, expected 16", out |-> Nil]
    ELSE
    LET cbcKey == HkdfRead(key, 0, 16)
        hmacKey == HkdfRead(key, 16, 16)
        numBlocks == Len(plaintext) \div BlockSize + 1
        body == CBCEncrypt(cbcKey, iv,
                           SubSeq(plaintext, 1, (numBlocks - 1) * BlockSize))
        lastBlock == addPadding(BlockSize,
                        SubSeq(plaintext, (numBlocks - 1) * BlockSize + 1,
                               Len(plaintext)))
        chain == IF body = <<>> THEN iv
                 ELSE SubSeq(body, Len(body) - BlockSize + 1, Len(body))
        res == iv \o body \o CBCEncrypt(cbcKey, chain, lastBlock)
        authtag == Chunk(Hmac(hmacKey, res), TagSize)
    IN  [err |-> NoErr, out |-> res \o authtag]

\* AuthDec without the comparison of the tag
AuthDec_NoTag(key, input) ==
    IF key.len # 16 THEN [err |-> "Got key length, expected 16", pt |-> Nil]
    ELSE IF Len(input) < 3 * 16
    THEN [err |-> "AuthDec: Input too short", pt |-> Nil]
    ELSE IF Len(input) % 16 # 0
    THEN [err |-> "AuthDec: Invalid input length", pt |-> Nil]
    ELSE
    LET iv == SubSeq(input, 1, 16)
        ciphertext == SubSeq(input, 17, Len(input) - TagSize)
        cbcKey == HkdfRead(key, 0, 16)
        plaintext == removePadding(BlockSize,
                                   CBCDecrypt(cbcKey, iv, ciphertext))
    IN  IF plaintext.panic # NoErr
        THEN [err |-> "panic: " \o plaintext.panic, pt |-> Nil]
        ELSE [err |-> NoErr, pt |-> plaintext.out]

\* AuthDec reporting an input of a wrong length as a tag mismatch
AuthDec_LengthAsTagError(key, input) ==
    IF key.len # 16 THEN [err |-> "Got key length, expected 16", pt |-> Nil]
    ELSE IF Len(input) < 3 * 16 \/ Len(input) % 16 # 0
    THEN [err |-> "Authtag mismatch", pt |-> Nil]
    ELSE
    LET iv == SubSeq(input, 1, 16)
        ciphertext == SubSeq(input, 17, Len(input) - TagSize)
        authtag == SubSeq(input, Len(input) - TagSize + 1, Len(input))
        cbcKey == HkdfRead(key, 0, 16)
        hmacKey == HkdfRead(key, 16, 16)
        mac == Chunk(Hmac(hmacKey, iv \o ciphertext), TagSize)
    IN  IF mac # authtag THEN [err |-> "Authtag mismatch", pt |-> Nil]
        ELSE
    LET plaintext == removePadding(BlockSize,
                                   CBCDecrypt(cbcKey, iv, ciphertext))
    IN  IF plaintext.panic # NoErr
        THEN [err |-> "panic: " \o plaintext.panic, pt |-> Nil]
        ELSE [err |-> NoErr, pt |-> plaintext.out]

\* AuthDec comparing only the first half of the tag
AuthDec_HalfTag(key, input) ==
    IF key.len # 16 THEN [err |-> "Got key length, expected 16", pt |-> Nil]
    ELSE IF Len(input) < 3 * 16
    THEN [err |-> "AuthDec: Input too short", pt |-> Nil]
    ELSE IF Len(input) % 16 # 0
    THEN [err |-> "AuthDec: Invalid input length", pt |-> Nil]
    ELSE
    LET iv == SubSeq(input, 1, 16)
        ciphertext == SubSeq(input, 17, Len(input) - TagSize)
        authtag == SubSeq(input, Len(input) - TagSize + 1, Len(input))
        cbcKey == HkdfRead(key, 0, 16)
        hmacKey == HkdfRead(key, 16, 16)
        mac == Chunk(Hmac(hmacKey, iv \o ciphertext), TagSize)
    IN  IF SubSeq(mac, 1, 16) # SubSeq(authtag, 1, 16)
        THEN [err |-> "Authtag mismatch", pt |-> Nil]
        ELSE
    LET plaintext == removePadding(BlockSize,
                                   CBCDecrypt(cbcKey, iv, ciphertext))
    IN  IF plaintext.panic # NoErr
        THEN [err |-> "panic: " \o plaintext.panic, pt |-> Nil]
        ELSE [err |-> NoErr, pt |-> plaintext.out]

\* AuthDec that decrypts and removes the padding before it compares the tag
AuthDec_PaddingFirst(key, input) ==
    IF key.len # 16 THEN [err |-> "Got key length, expected 16", pt |-> Nil]
    ELSE IF Len(input) < 3 * 16
    THEN [err |-> "AuthDec: Input too short", pt |-> Nil]
    ELSE IF Len(input) % 16 # 0
    THEN [err |-> "AuthDec: Invalid input length", pt |-> Nil]
    ELSE
    LET iv == SubSeq(input, 1, 16)
        ciphertext == SubSeq(input, 17, Len(input) - TagSize)
        authtag == SubSeq(input, Len(input) - TagSize + 1, Len(input))
        cbcKey == HkdfRead(key, 0, 16)
        hmacKey == HkdfRead(key, 16, 16)
        mac == Chunk(Hmac(hmacKey, iv \o ciphertext), TagSize)
        plaintext == removePadding(BlockSize,
                                   CBCDecrypt(cbcKey, iv, ciphertext))
    IN  IF plaintext.panic # NoErr
        THEN [err |-> "panic: " \o plaintext.panic, pt |-> Nil]
        ELSE IF mac # authtag THEN [err |-> "Authtag mismatch", pt |-> Nil]
        ELSE [err |-> NoErr, pt |-> plaintext.out]

\* AuthDec(key, input)
AuthDec(key, input) ==
    IF key.len # 16 THEN [err |-> "Got key length, expected 16", pt |-> Nil]
    ELSE IF Len(input) < 3 * 16
    THEN [err |-> "AuthDec: Input too short", pt |-> Nil]
    ELSE IF Len(input) % 16 # 0
    THEN [err |-> "AuthDec: Invalid input length", pt |-> Nil]
    ELSE
    LET iv == SubSeq(input, 1, 16)
        ciphertext == SubSeq(input, 17, Len(input) - TagSize)
        authtag == SubSeq(input, Len(input) - TagSize + 1, Len(input))
        cbcKey == HkdfRead(key, 0, 16)
        hmacKey == HkdfRead(key, 16, 16)
        mac == Chunk(Hmac(hmacKey, iv \o ciphertext), TagSize)
    IN  IF mac # authtag THEN [err |-> "Authtag mismatch", pt |-> Nil]
        ELSE
    LET plaintext == removePadding(BlockSize,
                                   CBCDecrypt(cbcKey, iv, ciphertext))
    IN  IF plaintext.panic # NoErr
        THEN [err |-> "panic: " \o plaintext.panic, pt |-> Nil]
        ELSE [err |-> NoErr, pt |-> plaintext.out]

(***************************************************************************)
(* envu.go: the envelope codec.  PEM data is the sequence of its blocks.   *)
(***************************************************************************)
\* encodeEnvU(env)
encodeEnvU(env) ==
    << PemEncode("RSA PRIVATE KEY", MarshalPKCS1PrivateKey(env.privU)),
       PemEncode("RSA PUBLIC KEY", MarshalPKCS1PublicKey(env.pubS)) >>

\* decodeEnvU that does not look at the Type of the blocks
decodeEnvU_NoTypeCheck(pemdata) ==
    IF Len(pemdata) < 1
    THEN [err |-> "Failed to decode private key", env |-> Nil]
    ELSE IF pemdata[1].Bytes.der # "PKCS1PrivateKey"
    THEN [err |-> "x509: failed to parse private key", env |-> Nil]
    ELSE IF Len(pemdata) < 2
    THEN [err |-> "Failed to decode public key", env |-> Nil]
    ELSE IF pemdata[2].Bytes.der # "PKCS1PublicKey"
    THEN [err |-> "x509: failed to parse public key", env |-> Nil]
    ELSE [err |-> NoErr,
          env |-> [privU |-> pemdata[1].Bytes.key,
                   pubS |-> pemdata[2].Bytes.key]]

\* decodeEnvU(pemdata)
decodeEnvU(pemdata) ==
    IF Len(pemdata) < 1
    THEN [err |-> "Failed to decode private key", env |-> Nil]
    ELSE IF pemdata[1].Type # "RSA PRIVATE KEY"
    THEN [err |-> "Unexpected type of block", env |-> Nil]
    ELSE IF pemdata[1].Bytes.der # "PKCS1PrivateKey"
    THEN [err |-> "x509: failed to parse private key", env |-> Nil]
    ELSE IF Len(pemdata) < 2
    THEN [err |-> "Failed to decode public key", env |-> Nil]
    ELSE IF pemdata[2].Type # "RSA PUBLIC KEY"
    THEN [err |-> "Unexpected type of block", env |-> Nil]
    ELSE IF pemdata[2].Bytes.der # "PKCS1PublicKey"
    THEN [err |-> "x509: failed to parse public key", env |-> Nil]
    ELSE [err |-> NoErr,
          env |-> [privU |-> pemdata[1].Bytes.key,
                   pubS |-> pemdata[2].Bytes.key]]

(***************************************************************************)
(* dhoprf.go: DH-OPRF                                                      *)
(***************************************************************************)
\* the password that is registered, and the passwords a client authenticates
\* with
RegPasswords == {"password"}
Passwords == {"password", "wrong password"}

\* hashToGroup(data): the first non-zero integer below p drawn from the HKDF
\* stream seeded with data; a fixed element of 1..p-1 for each input
hashToGroup(data) ==
    CASE data = "password" -> 5
      [] data = "wrong password" -> 7
      [] OTHER -> 3

\* dhOprf1(x): a = H'(x) * g^r mod p for the r drawn in one pass of the loop
dhOprf1A(x, r) ==
    LET hPrime == hashToGroup(x)
    IN  (hPrime * Exp(G, r, P)) % P

\* dhOprf1(x): the (a, r) it can return; a pass whose a is in the small
\* subgroup is retried with a new r
dhOprf1(x) ==
    { [a |-> dhOprf1A(x, r), r |-> r] : r \in
        { rr \in PrivateKeys : ~IsInSmallSubgroup(dhOprf1A(x, rr), P) } }

\* dhOprf2 with the two checks of a in the other order
dhOprf2_SubgroupFirst(a, k) ==
    IF IsInSmallSubgroup(a, P)
    THEN [err |-> "a is in a small subgroup", v |-> Nil, b |-> Nil]
    ELSE IF ~IsInGroup(a, P)
    THEN [err |-> "a is not in D-H group", v |-> Nil, b |-> Nil]
    ELSE [err |-> NoErr, v |-> Exp(G, k, P), b |-> Exp(a, k, P)]

\* dhOprf2 that leaves the salt out: v = g and b = a
dhOprf2_NoSalt(a, k) ==
    IF ~IsInGroup(a, P)
    THEN [err |-> "a is not in D-H group", v |-> Nil, b |-> Nil]
    ELSE IF IsInSmallSubgroup(a, P)
    THEN [err |-> "a is in a small subgroup", v |-> Nil, b |-> Nil]
    ELSE [err |-> NoErr, v |-> G, b |-> a]

\* dhOprf2(a, k)
dhOprf2(a, k) ==
    IF ~IsInGroup(a, P)
    THEN [err |-> "a is not in D-H group", v |-> Nil, b |-> Nil]
    ELSE IF IsInSmallSubgroup(a, P)
    THEN [err |-> "a is in a small subgroup", v |-> Nil, b |-> Nil]
    ELSE [err |-> NoErr, v |-> Exp(G, k, P), b |-> Exp(a, k, P)]

\* dhOprf3 with b checked before v
dhOprf3_BFirst(x, v, b, r) ==
    IF ~IsInGroup(b, P)
    THEN [err |-> "b is not in D-H group", rwd |-> Nil]
    ELSE IF IsInSmallSubgroup(b, P)
    THEN [err |-> "b is in a small subgroup", rwd |-> Nil]
    ELSE IF ~IsInGroup(v, P)
    THEN [err |-> "v is not in D-H group", rwd |-> Nil]
    ELSE IF IsInSmallSubgroup(v, P)
    THEN [err |-> "v is in a small subgroup", rwd |-> Nil]
    ELSE LET z1 == Exp(v, r, P)
             z2 == ModInverse(z1, P)
             z == (b * z2) % P
         IN  [err |-> NoErr,
              rwd |-> Sha256(<<x>> \o Bytes(v) \o Bytes(z))]

\* dhOprf3 that hashes b as it came, without removing the blinding
dhOprf3_Blinded(x, v, b, r) ==
    IF ~IsInGroup(v, P)
    THEN [err |-> "v is not in D-H group", rwd |-> Nil]
    ELSE IF IsInSmallSubgroup(v, P)
    THEN [err |-> "v is in a small subgroup", rwd |-> Nil]
    ELSE IF ~IsInGroup(b, P)
    THEN [err |-> "b is not in D-H group", rwd |-> Nil]
    ELSE IF IsInSmallSubgroup(b, P)
    THEN [err |-> "b is in a small subgroup", rwd |-> Nil]
    ELSE [err |-> NoErr,
          rwd |-> Sha256(<<x>> \o Bytes(v) \o Bytes(b))]

\* dhOprf3 without the checks of v
dhOprf3_VUnchecked(x, v, b, r) ==
    IF ~IsInGroup(b, P)
    THEN [err |-> "b is not in D-H group", rwd |-> Nil]
    ELSE IF IsInSmallSubgroup(b, P)
    THEN [err |-> "b is in a small subgroup", rwd |-> Nil]
    ELSE LET z1 == Exp(v, r, P)
             z2 == ModInverse(z1, P)
             z == (b * z2) % P
         IN  [err |-> NoErr,
              rwd |-> Sha256(<<x>> \o Bytes(v) \o Bytes(z))]

\* dhOprf3(x, v, b, r)
dhOprf3(x, v, b, r) ==
    IF ~IsInGroup(v, P)
    THEN [err |-> "v is not in D-H group", rwd |-> Nil]
    ELSE IF IsInSmallSubgroup(v, P)
    THEN [err |-> "v is in a small subgroup", rwd |-> Nil]
    ELSE IF ~IsInGroup(b, P)
    THEN [err |-> "b is not in D-H group", rwd |-> Nil]
    ELSE IF IsInSmallSubgroup(b, P)
    THEN [err |-> "b is in a small subgroup", rwd |-> Nil]
    ELSE LET z1 == Exp(v, r, P)
             z2 == ModInverse(z1, P)
             z == (b * z2) % P
         IN  [err |-> NoErr,
              rwd |-> Sha256(<<x>> \o Bytes(v) \o Bytes(z))]

(***************************************************************************)
(* Password registration: PwRegInit, PwReg1, PwReg2, PwReg3                *)
(***************************************************************************)
\* the server's RSA key and the key of a party that is not the server
ServerKey == "S"
ImpostorKey == "E"
\* the keys rsa.GenerateKey can return to the client in PwReg2
ClientKeys == {"U"}
Usernames == {"user"}

\* PwRegInit(username, password, bits), ar the (a, r) returned by dhOprf1
PwRegInit(username, password, bits, ar) ==
    [err |-> NoErr,
     sess |-> [a |-> ar.a, r |-> ar.r, password |-> password, bits |-> bits],
     msg1 |-> [Username |-> username, R |-> ar.r, A |-> ar.a]]

\* PwReg1(privS, msg1), k the salt returned by generateSalt
PwReg1(privS, msg1, k) ==
    LET o == dhOprf2(msg1.A, k)
    IN  IF o.err # NoErr
        THEN [err |-> o.err, sess |-> Nil, msg2 |-> Nil]
        ELSE [err |-> NoErr,
              sess |-> [username |-> msg1.Username, k |-> k, v |-> o.v],
              msg2 |-> [V |-> o.v, B |-> o.b, PubS |-> PublicKey(privS)]]

\* PwReg2(sess, msg2), privU the key returned by rsa.GenerateKey and iv the
\* bytes AuthEnc reads from randr
PwReg2(sess, msg2, privU, iv) ==
    LET o == dhOprf3(sess.password, msg2.V, msg2.B, sess.r)
    IN  IF o.err # NoErr
        THEN [err |-> o.err, msg3 |-> Nil]
        ELSE LET env == [privU |-> privU, pubS |-> msg2.PubS]
                 encodedEnvU == encodeEnvU(env)
                 e == AuthEnc(iv, Prefix(o.rwd, 16), encodedEnvU)
             IN  IF e.err # NoErr
                 THEN [err |-> e.err, msg3 |-> Nil]
                 ELSE [err |-> NoErr,
                       msg3 |-> [EnvU |-> e.out, PubU |-> PublicKey(privU)]]

\* PwReg3 that stores the salt in the place of v
PwReg3_KAsV(sess, msg3) ==
    [Username |-> sess.username,
     K |-> sess.k,
     V |-> sess.k,
     EnvU |-> msg3.EnvU,
     PubU |-> msg3.PubU]

\* PwReg3(sess, msg3)
PwReg3(sess, msg3) ==
    [Username |-> sess.username,
     K |-> sess.k,
     V |-> sess.v,
     EnvU |-> msg3.EnvU,
     PubU |-> msg3.PubU]

(***************************************************************************)
(* Authentication: AuthInit, Auth1, Auth2, Auth3                           *)
(***************************************************************************)
\* AuthMsg3{}
EmptyAuthMsg3 == [DhSig |-> Nil, DhMac |-> Nil]

\* computeDhMac(key, pk)
computeDhMac(key, pk) ==
    LET pemdata == PemEncode("RSA PUBLIC KEY", MarshalPKCS1PublicKey(pk))
    IN  Hmac(key, pemdata)

\* verifyDhMac(key, pk, origMac)
verifyDhMac(key, pk, origMac) ==
    LET mac == computeDhMac(key, pk)
    IN  mac = origMac

\* dhSecrets(dhPriv, dhPub)
dhSecrets(dhPriv, dhPub) ==
    LET ikm == SharedSecret(dhPriv, dhPub)
    IN  [dhSharedSecret |-> HkdfRead(ikm, 0, 16),
         dhMacKey |-> HkdfRead(ikm, 16, 16)]

\* the digest with the server's value written first
Transcript_ServerFirst(dhPubClient, dhPubServer) ==
    Sha256(Bytes(dhPubServer) \o Bytes(dhPubClient))

\* the digest of h.Write(dhGroup.Bytes(c)); h.Write(dhGroup.Bytes(s))
Transcript(dhPubClient, dhPubServer) ==
    Sha256(Bytes(dhPubClient) \o Bytes(dhPubServer))

\* AuthInit(username, password), ar the (a, r) returned by dhOprf1 and x the
\* key returned by GeneratePrivateKey
AuthInit(username, password, ar, x) ==
    LET dhPubClient == GeneratePublicKey(x)
    IN  [err |-> NoErr,
         sess |-> [x |-> x, dhPubClient |-> dhPubClient, r |-> ar.r,
                   password |-> password],
         msg1 |-> [Username |-> username, A |-> ar.a,
                   DhPubClient |-> dhPubClient]]

\* Auth1(privS, user, msg1), y the key returned by GeneratePrivateKey
Auth1(privS, user, msg1, y) ==
    LET o == dhOprf2(msg1.A, user.K)
    IN  IF o.err # NoErr
        THEN [err |-> o.err, sess |-> Nil, msg2 |-> Nil]
        ELSE LET dhPubServer == GeneratePublicKey(y)
                 sig == SignPSS(privS, Transcript(msg1.DhPubClient, dhPubServer))
                 sec == dhSecrets(y, msg1.DhPubClient)
                 mac == computeDhMac(sec.dhMacKey, PublicKey(privS))
             IN  [err |-> NoErr,
                  sess |-> [y |-> y,
                            dhPubServer |-> dhPubServer,
                            dhPubClient |-> msg1.DhPubClient,
                            pubS |-> PublicKey(privS),
                            user |-> user,
                            dhMacKey |-> sec.dhMacKey,
                            dhSharedSecret |-> sec.dhSharedSecret],
                  msg2 |-> [V |-> o.v, B |-> o.b, EnvU |-> user.EnvU,
                            DhPubServer |-> dhPubServer,
                            DhSig |-> sig, DhMac |-> mac]]

\* what Auth2 returns on an error
Auth2Fail(err) == [err |-> err, secret |-> Nil, msg3 |-> EmptyAuthMsg3]

\* Auth2 without the verification of the server's signature
Auth2_NoSig(sess, msg2) ==
    LET o == dhOprf3(sess.password, msg2.V, msg2.B, sess.r)
    IN  IF o.err # NoErr THEN Auth2Fail(o.err)
        ELSE
    LET d == AuthDec(Prefix(o.rwd, 16), msg2.EnvU)
    IN  IF d.err # NoErr THEN Auth2Fail(d.err)
        ELSE
    LET e == decodeEnvU(d.pt)
    IN  IF e.err # NoErr THEN Auth2Fail(e.err)
        ELSE
    LET envU == e.env
        digest == Transcript(sess.dhPubClient, msg2.DhPubServer)
        sec == dhSecrets(sess.x, msg2.DhPubServer)
    IN  IF ~verifyDhMac(sec.dhMacKey, envU.pubS, msg2.DhMac)
        THEN Auth2Fail("MAC mismatch")
        ELSE
    LET sig == SignPSS(envU.privU, digest)
        mac == computeDhMac(sec.dhMacKey, PublicKey(envU.privU))
    IN  [err |-> NoErr, secret |-> sec.dhSharedSecret,
         msg3 |-> [DhSig |-> sig, DhMac |-> mac]]

\* Auth2 with the MAC compared before the signature is verified
Auth2_MacFirst(sess, msg2) ==
    LET o == dhOprf3(sess.password, msg2.V, msg2.B, sess.r)
    IN  IF o.err # NoErr THEN Auth2Fail(o.err)
        ELSE
    LET d == AuthDec(Prefix(o.rwd, 16), msg2.EnvU)
    IN  IF d.err # NoErr THEN Auth2Fail(d.err)
        ELSE
    LET e == decodeEnvU(d.pt)
    IN  IF e.err # NoErr THEN Auth2Fail(e.err)
        ELSE
    LET envU == e.env
        digest == Transcript(sess.dhPubClient, msg2.DhPubServer)
        sec == dhSecrets(sess.x, msg2.DhPubServer)
        verr == VerifyPSS(envU.pubS, digest, msg2.DhSig)
    IN  IF ~verifyDhMac(sec.dhMacKey, envU.pubS, msg2.DhMac)
        THEN Auth2Fail("MAC mismatch")
        ELSE IF verr # NoErr THEN Auth2Fail(verr)
        ELSE
    LET sig == SignPSS(envU.privU, digest)
        mac == computeDhMac(sec.dhMacKey, PublicKey(envU.privU))
    IN  [err |-> NoErr, secret |-> sec.dhSharedSecret,
         msg3 |-> [DhSig |-> sig, DhMac |-> mac]]

\* Auth2 that returns the client's AuthMsg3 together with "MAC mismatch"
Auth2_ReleasesMsg3(sess, msg2) ==
    LET o == dhOprf3(sess.password, msg2.V, msg2.B, sess.r)
    IN  IF o.err # NoErr THEN Auth2Fail(o.err)
        ELSE
    LET d == AuthDec(Prefix(o.rwd, 16), msg2.EnvU)
    IN  IF d.err # NoErr THEN Auth2Fail(d.err)
        ELSE
    LET e == decodeEnvU(d.pt)
    IN  IF e.err # NoErr THEN Auth2Fail(e.err)
        ELSE
    LET envU == e.env
        digest == Transcript(sess.dhPubClient, msg2.DhPubServer)
        verr == VerifyPSS(envU.pubS, digest, msg2.DhSig)
    IN  IF verr # NoErr THEN Auth2Fail(verr)
        ELSE
    LET sec == dhSecrets(sess.x, msg2.DhPubServer)
        sig == SignPSS(envU.privU, digest)
        mac == computeDhMac(sec.dhMacKey, PublicKey(envU.privU))
    IN  IF ~verifyDhMac(sec.dhMacKey, envU.pubS, msg2.DhMac)
        THEN [err |-> "MAC mismatch", secret |-> Nil,
              msg3 |-> [DhSig |-> sig, DhMac |-> mac]]
        ELSE [err |-> NoErr, secret |-> sec.dhSharedSecret,
              msg3 |-> [DhSig |-> sig, DhMac |-> mac]]

\* Auth2(sess, msg2)
Auth2(sess, msg2) ==
    LET o == dhOprf3(sess.password, msg2.V, msg2.B, sess.r)
    IN  IF o.err # NoErr THEN Auth2Fail(o.err)
        ELSE
    LET d == AuthDec(Prefix(o.rwd, 16), msg2.EnvU)
    IN  IF d.err # NoErr THEN Auth2Fail(d.err)
        ELSE
    LET e == decodeEnvU(d.pt)
    IN  IF e.err # NoErr THEN Auth2Fail(e.err)
        ELSE
    LET envU == e.env
        digest == Transcript(sess.dhPubClient, msg2.DhPubServer)
        verr == VerifyPSS(envU.pubS, digest, msg2.DhSig)
    IN  IF verr # NoErr THEN Auth2Fail(verr)
        ELSE
    LET sec == dhSecrets(sess.x, msg2.DhPubServer)
    IN  IF ~verifyDhMac(sec.dhMacKey, envU.pubS, msg2.DhMac)
        THEN Auth2Fail("MAC mismatch")
        ELSE
    LET sig == SignPSS(envU.privU, digest)
        mac == computeDhMac(sec.dhMacKey, PublicKey(envU.privU))
    IN  [err |-> NoErr, secret |-> sec.dhSharedSecret,
         msg3 |-> [DhSig |-> sig, DhMac |-> mac]]

\* Auth3 returning the MAC key in place of the shared secret
Auth3_ReturnsMacKey(sess, msg3) ==
    LET digest == Transcript(sess.dhPubClient, sess.dhPubServer)
        verr == VerifyPSS(sess.user.PubU, digest, msg3.DhSig)
    IN  IF verr # NoErr THEN [err |-> verr, secret |-> Nil]
        ELSE IF ~verifyDhMac(sess.dhMacKey, sess.user.PubU, msg3.DhMac)
        THEN [err |-> "MAC mismatch", secret |-> Nil]
        ELSE [err |-> NoErr, secret |-> sess.dhMacKey]

\* Auth3 without the comparison of the MAC
Auth3_NoMac(sess, msg3) ==
    LET digest == Transcript(sess.dhPubClient, sess.dhPubServer)
        verr == VerifyPSS(sess.user.PubU, digest, msg3.DhSig)
    IN  IF verr # NoErr THEN [err |-> verr, secret |-> Nil]
        ELSE [err |-> NoErr, secret |-> sess.dhSharedSecret]

\* Auth3 with the MAC compared before the signature is verified
Auth3_MacFirst(sess, msg3) ==
    LET digest == Transcript(sess.dhPubClient, sess.dhPubServer)
        verr == VerifyPSS(sess.user.PubU, digest, msg3.DhSig)
    IN  IF ~verifyDhMac(sess.dhMacKey, sess.user.PubU, msg3.DhMac)
        THEN [err |-> "MAC mismatch", secret |-> Nil]
        ELSE IF verr # NoErr THEN [err |-> verr, secret |-> Nil]
        ELSE [err |-> NoErr, secret |-> sess.dhSharedSecret]

\* Auth3(sess, msg3)
Auth3(sess, msg3) ==
    LET digest == Transcript(sess.dhPubClient, sess.dhPubServer)
        verr == VerifyPSS(sess.user.PubU, digest, msg3.DhSig)
    IN  IF verr # NoErr THEN [err |-> verr, secret |-> Nil]
        ELSE IF ~verifyDhMac(sess.dhMacKey, sess.user.PubU, msg3.DhMac)
        THEN [err |-> "MAC mismatch", secret |-> Nil]
        ELSE [err |-> NoErr, secret |-> sess.dhSharedSecret]

(***************************************************************************)
(* The attacker on the wire                                                *)
(***************************************************************************)
\* a Diffie-Hellman private key of the attacker, none of the honest ones
AttackerDhKey == MaxKey + 1

\* the integers that are not elements of Z^*_p outside the small subgroup,
\* put in place of the OPRF element orig: not positive, in the small
\* subgroup, not below p
BadElements(orig) == {0 - 1, 0, 1, P - 1, orig + P}

\* the integers the attacker puts in place of an OPRF element: the above, or
\* another group element
TamperInts(orig) == BadElements(orig) \cup ({123} \ {orig})

\* the same for a message of the registration run, whose channel is
\* authenticated: only transmission faults that the checks are there for
TamperRegInts(orig) == BadElements(orig)

\* the integers the attacker puts in place of the Diffie-Hellman public orig:
\* a negative one, another group element, one congruent to it
TamperDhPubs(orig) == {0 - 123, 123, orig + P} \ {orig}

\* byte strings the attacker puts in place of a signature over the transcript
\* of (dhPubClient, dhPubServer): one bit flipped, or its own signature
TamperSigs(orig, dhPubClient, dhPubServer) ==
    (IF orig = Nil THEN {} ELSE {[orig EXCEPT !.flip = TRUE]})
    \cup {SignPSS(ImpostorKey, Transcript(dhPubClient, dhPubServer))}

\* byte strings the attacker puts in place of a MAC of pk: one bit flipped,
\* or the MAC under the key it derives from its own Diffie-Hellman key
TamperMacs(orig, dhPub, pk) ==
    (IF orig = Nil THEN {} ELSE {[orig EXCEPT !.flip = TRUE]})
    \cup {computeDhMac(dhSecrets(AttackerDhKey, dhPub).dhMacKey, pk)}

\* the byte x with one bit changed
FlipByte(x) ==
    IF "b" \in DOMAIN x THEN Byte((x.b + 128) % 256) ELSE [flipped |-> x]

\* the byte string s with one bit of its i-th byte changed
FlipAt(s, i) == [s EXCEPT ![i] = FlipByte(s[i])]

\* byte strings the attacker puts in place of the envelope: one bit of the
\* IV flipped, the last byte cut off, all but the first 32 bytes cut off
TamperEnvs(orig) ==
    {FlipAt(orig, 1),
     SubSeq(orig, 1, Len(orig) - 1),
     SubSeq(orig, 1, 32)}

(***************************************************************************)
(* State: one registration run followed by one authentication run          *)
(***************************************************************************)
VARIABLES
    pc,         \* the next step of the run
    tampered,   \* the fields the attacker has changed
    regPw,      \* the password given to PwRegInit
    rcSess,     \* *PwRegClientSession
    rmsg1,      \* PwRegMsg1 in flight
    rsSess,     \* *PwRegServerSession
    rmsg2,      \* PwRegMsg2 in flight
    rmsg3,      \* PwRegMsg3 in flight
    regErr,     \* the error that ended the registration run
    user,       \* *User returned by PwReg3
    cSess,      \* *AuthClientSession
    amsg1,      \* AuthMsg1 in flight
    authPrivS,  \* the key Auth1 was called with
    sSess,      \* *AuthServerSession
    err1,       \* the error returned by Auth1
    amsg2,      \* AuthMsg2 in flight
    cErr,       \* the error returned by Auth2
    cSecret,    \* the secret returned by Auth2
    amsg3,      \* AuthMsg3 in flight
    sErr,       \* the error returned by Auth3
    sSecret,    \* the secret returned by Auth3
    ae,         \* a call of AuthEnc followed by a call of AuthDec
    oprf,       \* two runs of dhOprf1, dhOprf2, dhOprf3
    srv,        \* cmd/server: the users map and the connection it handles
    again,      \* a second call of a terminal step with the same session
    conc,       \* cmd/server with one goroutine for each connection
    samp,       \* a call of GeneratePrivateKey or dhOprf1 inside its loop
    call        \* a call of a function of the group, padding or envelope code

regVars == <<regPw, rcSess, rmsg1, rsSess, rmsg2, rmsg3, regErr, user>>
authVars == <<cSess, amsg1, authPrivS, sSess, err1, amsg2, cErr, cSecret,
              amsg3, sErr, sSecret>>
protoVars == <<pc, tampered, regVars, authVars>>
pureVars == <<ae, oprf, srv, again, conc, samp, call>>
vars == <<protoVars, pureVars>>

\* no call has been made
InitProto ==
    /\ pc = "start"
    /\ tampered = {}
    /\ regPw = Nil
    /\ rcSess = Nil /\ rmsg1 = Nil /\ rsSess = Nil /\ rmsg2 = Nil
    /\ rmsg3 = Nil /\ regErr = NoErr /\ user = Nil
    /\ cSess = Nil /\ amsg1 = Nil /\ authPrivS = Nil /\ sSess = Nil
    /\ err1 = NoErr /\ amsg2 = Nil /\ cErr = NoErr /\ cSecret = Nil
    /\ amsg3 = Nil /\ sErr = NoErr /\ sSecret = Nil

Init ==
    /\ InitProto
    /\ ae = Nil
    /\ oprf = Nil
    /\ srv = Nil
    /\ again = Nil
    /\ conc = Nil
    /\ samp = Nil
    /\ call = Nil

CanTamper(field) ==
    /\ field \notin tampered
    /\ Cardinality(tampered) < MaxTamper

(***************************************************************************)
(* Registration run                                                        *)
(***************************************************************************)
StepPwRegInit ==
    /\ pc = "start"
    /\ \E username \in Usernames, password \in RegPasswords :
         \E ar \in dhOprf1(password) :
           LET res == PwRegInit(username, password, 512, ar)
           IN  /\ regPw' = password
               /\ rcSess' = res.sess
               /\ rmsg1' = res.msg1
    /\ pc' = "r1"
    /\ UNCHANGED <<tampered, rsSess, rmsg2, rmsg3, regErr, user, authVars>>
    /\ UNCHANGED pureVars

TamperPwRegMsg1 ==
    /\ pc = "r1"
    /\ CanTamper("PwRegMsg1.A")
    /\ \E n \in TamperRegInts(rmsg1.A) : rmsg1' = [rmsg1 EXCEPT !.A = n]
    /\ tampered' = tampered \cup {"PwRegMsg1.A"}
    /\ UNCHANGED <<pc, regPw, rcSess, rsSess, rmsg2, rmsg3, regErr, user,
                   authVars>>
    /\ UNCHANGED pureVars

StepPwReg1 ==
    /\ pc = "r1"
    /\ \E k \in PrivateKeys :
         LET res == PwReg1(ServerKey, rmsg1, k)
         IN  /\ rsSess' = res.sess
             /\ rmsg2' = res.msg2
             /\ regErr' = res.err
             /\ pc' = IF res.err = NoErr THEN "r2" ELSE "regfail"
    /\ UNCHANGED <<tampered, regPw, rcSess, rmsg1, rmsg3, user, authVars>>
    /\ UNCHANGED pureVars

TamperPwRegMsg2 ==
    /\ pc = "r2"
    /\ \/ /\ CanTamper("PwRegMsg2.V")
          /\ \E n \in TamperRegInts(rmsg2.V) : rmsg2' = [rmsg2 EXCEPT !.V = n]
          /\ tampered' = tampered \cup {"PwRegMsg2.V"}
       \/ /\ CanTamper("PwRegMsg2.B")
          /\ \E n \in TamperRegInts(rmsg2.B) : rmsg2' = [rmsg2 EXCEPT !.B = n]
          /\ tampered' = tampered \cup {"PwRegMsg2.B"}
    /\ UNCHANGED <<pc, regPw, rcSess, rmsg1, rsSess, rmsg3, regErr, user,
                   authVars>>
    /\ UNCHANGED pureVars

StepPwReg2 ==
    /\ pc = "r2"
    /\ \E privU \in ClientKeys :
         LET res == PwReg2(rcSess, rmsg2, privU, RandIV(0))
         IN  /\ rmsg3' = res.msg3
             /\ regErr' = res.err
             /\ pc' = IF res.err = NoErr THEN "r3" ELSE "regfail"
    /\ UNCHANGED <<tampered, regPw, rcSess, rmsg1, rsSess, rmsg2, user,
                   authVars>>
    /\ UNCHANGED pureVars

StepPwReg3 ==
    /\ pc = "r3"
    /\ user' = PwReg3(rsSess, rmsg3)
    /\ pc' = "registered"
    /\ UNCHANGED <<tampered, regPw, rcSess, rmsg1, rsSess, rmsg2, rmsg3,
                   regErr, authVars>>
    /\ UNCHANGED pureVars

(***************************************************************************)
(* Authentication run                                                      *)
(***************************************************************************)
\* The registration run is over when the authentication run starts: its
\* sessions and messages are out of scope (the client of cmd/client is a new
\* process, the server's handler has returned); the server keeps the User.
StepAuthInit ==
    /\ pc = "registered"
    /\ \E password \in Passwords, x \in PrivateKeys :
         \E ar \in dhOprf1(password) :
           LET res == AuthInit(user.Username, password, ar, x)
           IN  /\ cSess' = res.sess
               /\ amsg1' = res.msg1
    /\ pc' = "a1"
    /\ rcSess' = Nil /\ rmsg1' = Nil /\ rsSess' = Nil
    /\ rmsg2' = Nil /\ rmsg3' = Nil
    /\ UNCHANGED <<tampered, regPw, regErr, user, authPrivS, sSess, err1,
                   amsg2, cErr, cSecret, amsg3, sErr, sSecret>>
    /\ UNCHANGED pureVars

TamperAuthMsg1 ==
    /\ pc = "a1"
    /\ \/ /\ CanTamper("AuthMsg1.A")
          /\ \E n \in TamperInts(amsg1.A) : amsg1' = [amsg1 EXCEPT !.A = n]
          /\ tampered' = tampered \cup {"AuthMsg1.A"}
       \/ /\ CanTamper("AuthMsg1.DhPubClient")
          /\ \E n \in TamperDhPubs(amsg1.DhPubClient) :
               amsg1' = [amsg1 EXCEPT !.DhPubClient = n]
          /\ tampered' = tampered \cup {"AuthMsg1.DhPubClient"}
    /\ UNCHANGED <<pc, regVars, cSess, authPrivS, sSess, err1, amsg2, cErr,
                   cSecret, amsg3, sErr, sSecret>>
    /\ UNCHANGED pureVars

\* Auth1 is called by the server with its key, or by an impostor who holds
\* the stored User and has another key; the impostor is one of the attacker's
\* interventions
StepAuth1 ==
    /\ pc = "a1"
    /\ \E privS \in {ServerKey, ImpostorKey}, y \in PrivateKeys :
         LET res == Auth1(privS, user, amsg1, y)
         IN  /\ privS = ImpostorKey => CanTamper("Auth1.privS")
             /\ tampered' = IF privS = ImpostorKey
                            THEN tampered \cup {"Auth1.privS"}
                            ELSE tampered
             /\ authPrivS' = privS
             /\ sSess' = res.sess
             /\ amsg2' = res.msg2
             /\ err1' = res.err
             /\ pc' = IF res.err = NoErr THEN "a2" ELSE "authfail"
    /\ UNCHANGED <<regVars, cSess, amsg1, cErr, cSecret, amsg3,
                   sErr, sSecret>>
    /\ UNCHANGED pureVars

TamperAuthMsg2 ==
    /\ pc = "a2"
    /\ \/ /\ CanTamper("AuthMsg2.V")
          /\ \E n \in TamperInts(amsg2.V) : amsg2' = [amsg2 EXCEPT !.V = n]
          /\ tampered' = tampered \cup {"AuthMsg2.V"}
       \/ /\ CanTamper("AuthMsg2.B")
          /\ \E n \in TamperInts(amsg2.B) : amsg2' = [amsg2 EXCEPT !.B = n]
          /\ tampered' = tampered \cup {"AuthMsg2.B"}
       \/ /\ CanTamper("AuthMsg2.EnvU")
          /\ \E e \in TamperEnvs(amsg2.EnvU) :
               amsg2' = [amsg2 EXCEPT !.EnvU = e]
          /\ tampered' = tampered \cup {"AuthMsg2.EnvU"}
       \/ /\ CanTamper("AuthMsg2.DhPubServer")
          /\ \E n \in TamperDhPubs(amsg2.DhPubServer)
                        \cup {GeneratePublicKey(AttackerDhKey)} :
               amsg2' = [amsg2 EXCEPT !.DhPubServer = n]
          /\ tampered' = tampered \cup {"AuthMsg2.DhPubServer"}
       \/ /\ CanTamper("AuthMsg2.DhSig")
          /\ \E g \in TamperSigs(amsg2.DhSig, amsg1.DhPubClient,
                                 amsg2.DhPubServer) :
               amsg2' = [amsg2 EXCEPT !.DhSig = g]
          /\ tampered' = tampered \cup {"AuthMsg2.DhSig"}
       \/ /\ CanTamper("AuthMsg2.DhMac")
          /\ \E m \in TamperMacs(amsg2.DhMac, amsg1.DhPubClient,
                                 PublicKey(ServerKey)) :
               amsg2' = [amsg2 EXCEPT !.DhMac = m]
          /\ tampered' = tampered \cup {"AuthMsg2.DhMac"}
    /\ UNCHANGED <<pc, regVars, cSess, amsg1, authPrivS, sSess, err1, cErr,
                   cSecret, amsg3, sErr, sSecret>>
    /\ UNCHANGED pureVars

\* The client sends the AuthMsg3 of a successful Auth2; after an error it
\* sends nothing (authenticate returns the error)
StepAuth2 ==
    /\ pc = "a2"
    /\ LET res == Auth2(cSess, amsg2)
       IN  /\ cErr' = res.err
           /\ cSecret' = res.secret
           /\ amsg3' = res.msg3
           /\ pc' = IF res.err = NoErr THEN "a3" ELSE "a2fail"
    /\ UNCHANGED <<tampered, regVars, cSess, amsg1, authPrivS, sSess, err1,
                   amsg2, sErr, sSecret>>
    /\ UNCHANGED pureVars

\* The attacker delivers the AuthMsg3{} of the failed Auth2 to the server
\* that waits for message 3
DeliverAuthMsg3 ==
    /\ pc = "a2fail"
    /\ CanTamper("AuthMsg3")
    /\ tampered' = tampered \cup {"AuthMsg3"}
    /\ pc' = "a3"
    /\ UNCHANGED <<regVars, authVars>>
    /\ UNCHANGED pureVars

TamperAuthMsg3 ==
    /\ pc = "a3"
    /\ \/ /\ CanTamper("AuthMsg3.DhSig")
          /\ \E g \in TamperSigs(amsg3.DhSig, amsg1.DhPubClient,
                                 amsg2.DhPubServer) :
               amsg3' = [amsg3 EXCEPT !.DhSig = g]
          /\ tampered' = tampered \cup {"AuthMsg3.DhSig"}
       \/ /\ CanTamper("AuthMsg3.DhMac")
          /\ \E m \in TamperMacs(amsg3.DhMac, amsg2.DhPubServer, user.PubU) :
               amsg3' = [amsg3 EXCEPT !.DhMac = m]
          /\ tampered' = tampered \cup {"AuthMsg3.DhMac"}
    /\ UNCHANGED <<pc, regVars, cSess, amsg1, authPrivS, sSess, err1, amsg2,
                   cErr, cSecret, sErr, sSecret>>
    /\ UNCHANGED pureVars

StepAuth3 ==
    /\ pc = "a3"
    /\ LET res == Auth3(sSess, amsg3)
       IN  /\ sErr' = res.err
           /\ sSecret' = res.secret
    /\ pc' = "done"
    /\ UNCHANGED <<tampered, regVars, cSess, amsg1, authPrivS, sSess, err1,
                   amsg2, cErr, cSecret, amsg3>>
    /\ UNCHANGED pureVars

Next ==
    \/ StepPwRegInit
    \/ TamperPwRegMsg1
    \/ StepPwReg1
    \/ TamperPwRegMsg2
    \/ StepPwReg2
    \/ StepPwReg3
    \/ StepAuthInit
    \/ TamperAuthMsg1
    \/ StepAuth1
    \/ TamperAuthMsg2
    \/ StepAuth2
    \/ DeliverAuthMsg3
    \/ TamperAuthMsg3
    \/ StepAuth3

Spec == Init /\ [][Next]_vars

(***************************************************************************)
(* AuthEnc and AuthDec called as authenc_test.go calls them: a message is   *)
(* sealed, the sealed bytes are changed or not, and they are opened.        *)
(***************************************************************************)
\* plaintexts have 0..MaxMsgLen bytes
MaxMsgLen == 17

\* the key made of len bytes n
TestKey(n, len) == Prefix(Sha256(<<n>>), len)

\* the key of the tests, the same with one bit changed, and a short key
AEKeys == {TestKey(7, 16), TestKey(6, 16), TestKey(7, 15)}

\* what randr yields: the DevZero of the tests, and another source
AEIVs == {RandIV(0), RandIV(1)}

\* the plaintexts: n bytes 7, or n bytes 16 (which read as padding)
AEMessages ==
    {[i \in 1..n |-> Byte(c)] : n \in 0..MaxMsgLen, c \in {7, 16}}

\* what a peer that holds the key can send in place of an output of AuthEnc:
\* the IV and ciphertext blocks of its choice, followed by their tag
Tagged(key, iv, ciphertext) ==
    iv \o ciphertext
       \o Chunk(Hmac(HkdfRead(key, 16, 16), iv \o ciphertext), TagSize)

\* no ciphertext at all, or the encryption of one block that does not end
\* in padding
ForgedInputs(key, iv) ==
    {Tagged(key, iv, <<>>),
     Tagged(key, iv, CBCEncrypt(HkdfRead(key, 0, 16), iv,
                                [j \in 1..BlockSize |-> Byte(200)]))}

InitAuthEnc ==
    /\ InitProto
    /\ ae \in {[pc |-> "start", key |-> k, iv |-> iv, msg |-> m,
                encErr |-> NoErr, sealed |-> Nil, mod |-> "none",
                decKey |-> Nil, input |-> Nil, res |-> Nil] :
               k \in AEKeys, iv \in AEIVs, m \in AEMessages}
    /\ oprf = Nil
    /\ srv = Nil
    /\ again = Nil
    /\ conc = Nil
    /\ samp = Nil
    /\ call = Nil

CallAuthEnc ==
    /\ ae.pc = "start"
    /\ LET r == AuthEnc(ae.iv, ae.key, ae.msg)
       IN  ae' = [ae EXCEPT !.pc = IF r.err = NoErr THEN "sealed"
                                   ELSE "encfail",
                            !.encErr = r.err,
                            !.sealed = r.out,
                            !.input = r.out]
    /\ UNCHANGED <<protoVars, oprf, srv, again, conc, samp, call>>

\* one bit of one byte is flipped, or the bytes are cut to a shorter length,
\* or a byte is appended, or the peer that holds the key sends bytes of its
\* own making
ModifySealed ==
    /\ ae.pc = "sealed"
    /\ ae.mod = "none"
    /\ \/ \E i \in 1..Len(ae.sealed) :
            ae' = [ae EXCEPT !.mod = "flip", !.input = FlipAt(ae.sealed, i)]
       \/ \E n \in 0..(Len(ae.sealed) - 1) :
            ae' = [ae EXCEPT !.mod = "cut",
                             !.input = SubSeq(ae.sealed, 1, n)]
       \/ ae' = [ae EXCEPT !.mod = "extend",
                           !.input = Append(ae.sealed, Byte(0))]
       \/ \E f \in ForgedInputs(ae.key, ae.iv) :
            ae' = [ae EXCEPT !.mod = "forge", !.input = f]
    /\ UNCHANGED <<protoVars, oprf, srv, again, conc, samp, call>>

CallAuthDec ==
    /\ ae.pc = "sealed"
    /\ \E k \in AEKeys :
         ae' = [ae EXCEPT !.pc = "opened",
                          !.decKey = k,
                          !.res = AuthDec(k, ae.input)]
    /\ UNCHANGED <<protoVars, oprf, srv, again, conc, samp, call>>

NextAuthEnc ==
    \/ CallAuthEnc
    \/ ModifySealed
    \/ CallAuthDec

SpecAuthEnc == InitAuthEnc /\ [][NextAuthEnc]_vars

(***************************************************************************)
(* The DH-OPRF run twice, as dhoprf_test.go runs it: dhOprf1 on a password, *)
(* dhOprf2 on a salt, dhOprf3; the second run is compared with the first.   *)
(***************************************************************************)
\* the order of the subgroup generated by g
Q == (P - 1) \div 2

\* the passwords of TestDhOprf, and one more
OprfPasswords == Passwords \cup {"new"}

\* salts that generateSalt can return: small ones, the same plus Q, and the
\* largest one
OprfSalts == PrivateKeys \cup {Q + k : k \in 0..MaxKey} \cup {P - 1}

InitOprf ==
    /\ InitProto
    /\ ae = Nil
    /\ oprf = [pc |-> "start", x |-> "", a |-> 0, r |-> 0, k |-> 0,
               v |-> 0, b |-> 0, err |-> NoErr, rwd |-> Nil, prev |-> Nil]
    /\ srv = Nil
    /\ again = Nil
    /\ conc = Nil
    /\ samp = Nil
    /\ call = Nil

CallDhOprf1 ==
    /\ oprf.pc = "start"
    /\ \E x \in OprfPasswords :
         \E ar \in dhOprf1(x) :
           oprf' = [oprf EXCEPT !.pc = "o2", !.x = x, !.a = ar.a, !.r = ar.r]
    /\ UNCHANGED <<protoVars, ae, srv, again, conc, samp, call>>

CallDhOprf2 ==
    /\ oprf.pc = "o2"
    /\ \E k \in OprfSalts :
         LET res == dhOprf2(oprf.a, k)
         IN  oprf' = IF res.err = NoErr
                     THEN [oprf EXCEPT !.pc = "o3", !.k = k,
                                       !.v = res.v, !.b = res.b]
                     ELSE [oprf EXCEPT !.pc = "fail", !.k = k,
                                       !.err = res.err]
    /\ UNCHANGED <<protoVars, ae, srv, again, conc, samp, call>>

CallDhOprf3 ==
    /\ oprf.pc = "o3"
    /\ LET res == dhOprf3(oprf.x, oprf.v, oprf.b, oprf.r)
       IN  oprf' = [oprf EXCEPT !.pc = IF res.err = NoErr THEN "done"
                                       ELSE "fail",
                                !.err = res.err,
                                !.rwd = res.rwd]
    /\ UNCHANGED <<protoVars, ae, srv, again, conc, samp, call>>

\* the result of the first run is kept and a second run starts
SecondRun ==
    /\ oprf.pc = "done"
    /\ oprf.prev = Nil
    /\ oprf' = [oprf EXCEPT !.pc = "start",
                            !.prev = [x |-> oprf.x, k |-> oprf.k,
                                      r |-> oprf.r, rwd |-> oprf.rwd]]
    /\ UNCHANGED <<protoVars, ae, srv, again, conc, samp, call>>

NextOprf ==
    \/ CallDhOprf1
    \/ CallDhOprf2
    \/ CallDhOprf3
    \/ SecondRun

SpecOprf == InitOprf /\ [][NextOprf]_vars

(***************************************************************************)
(* cmd/server and the clients of cmd/client: the server keeps the users    *)
(* map and handles one connection after the other, "pwreg" or "auth".      *)
(***************************************************************************)
\* the -username and -password flags of the clients, and their RSA keys
SrvUsernames == Usernames \cup {"other"}
SrvPasswords == Passwords
SrvClientKeys == ClientKeys \cup {"U2"}

\* the connection after the client has sent cmd and its first message
Conn(kind, csess, msg) ==
    [kind |-> kind, step |-> "msg1", csess |-> csess, session |-> Nil,
     msg |-> msg]

\* the error doHandleConn returns for the error err of handlePwReg ("pwreg")
\* or of handleAuth ("auth")
HandlerErr(kind, err) == kind \o ": " \o err

\* the error of util.Read on a connection the client has closed
ReadErr == "EOF"

\* the error of util.Write on a connection the client has closed
WriteErr == "broken pipe"

\* var users = map[string]*opaque.User{}; no connection
InitServer ==
    /\ InitProto
    /\ ae = Nil
    /\ oprf = Nil
    /\ srv = [users |-> [u \in SrvUsernames |-> Nil], conn |-> Nil,
              err |-> NoErr]
    /\ again = Nil
    /\ conc = Nil
    /\ samp = Nil
    /\ call = Nil

\* doPwreg up to the first write: PwRegInit; the a that arrives is the one
\* sent, or a faulty one
ClientPwRegInit ==
    /\ srv.conn = Nil
    /\ \E username \in SrvUsernames, password \in SrvPasswords :
         \E ar \in dhOprf1(password) :
           LET res == PwRegInit(username, password, 512, ar)
           IN  \/ srv' = [srv EXCEPT
                            !.conn = Conn("pwreg", res.sess, res.msg1),
                            !.err = NoErr]
               \/ \E n \in TamperRegInts(res.msg1.A) :
                    srv' = [srv EXCEPT
                              !.conn = Conn("pwreg", res.sess,
                                            [res.msg1 EXCEPT !.A = n]),
                              !.err = NoErr]
    /\ UNCHANGED <<protoVars, ae, oprf, again, conc, samp, call>>

\* handlePwReg that stores what it has after PwReg1
HandlePwRegMsg1_StoresEarly ==
    /\ srv.conn # Nil
    /\ srv.conn.kind = "pwreg" /\ srv.conn.step = "msg1"
    /\ \E k \in PrivateKeys :
         LET res == PwReg1(ServerKey, srv.conn.msg, k)
         IN  srv' = IF res.err # NoErr
                    THEN [srv EXCEPT !.conn = Nil,
                                     !.err = HandlerErr("pwreg", res.err)]
                    ELSE [srv EXCEPT !.users[res.sess.username] =
                                        [Username |-> res.sess.username,
                                         K |-> res.sess.k, V |-> res.sess.v,
                                         EnvU |-> Nil, PubU |-> Nil],
                                     !.conn.step = "msg2",
                                     !.conn.session = res.sess,
                                     !.conn.msg = res.msg2]
    /\ UNCHANGED <<protoVars, ae, oprf, again, conc, samp, call>>

\* handlePwReg up to the read of message 3: PwReg1
HandlePwRegMsg1 ==
    /\ srv.conn # Nil
    /\ srv.conn.kind = "pwreg" /\ srv.conn.step = "msg1"
    /\ \E k \in PrivateKeys :
         LET res == PwReg1(ServerKey, srv.conn.msg, k)
         IN  srv' = IF res.err # NoErr
                    THEN [srv EXCEPT !.conn = Nil,
                                     !.err = HandlerErr("pwreg", res.err)]
                    ELSE [srv EXCEPT !.conn.step = "msg2",
                                     !.conn.session = res.sess,
                                     !.conn.msg = res.msg2]
    /\ UNCHANGED <<protoVars, ae, oprf, again, conc, samp, call>>

\* doPwreg from the read of message 2: PwReg2; after an error the client
\* exits and the server's read of message 3 fails
ClientPwReg2 ==
    /\ srv.conn # Nil
    /\ srv.conn.kind = "pwreg" /\ srv.conn.step = "msg2"
    /\ \E privU \in SrvClientKeys :
         LET res == PwReg2(srv.conn.csess, srv.conn.msg, privU, RandIV(0))
         IN  srv' = IF res.err # NoErr
                    THEN [srv EXCEPT !.conn = Nil,
                                     !.err = HandlerErr("pwreg", ReadErr)]
                    ELSE [srv EXCEPT !.conn.step = "msg3",
                                     !.conn.msg = res.msg3]
    /\ UNCHANGED <<protoVars, ae, oprf, again, conc, samp, call>>

\* handlePwReg from the read of message 3: PwReg3, the write of "ok", and
\* if it was written users[user.Username] = user
HandlePwRegMsg3 ==
    /\ srv.conn # Nil
    /\ srv.conn.kind = "pwreg" /\ srv.conn.step = "msg3"
    /\ LET u == PwReg3(srv.conn.session, srv.conn.msg)
       IN  \/ srv' = [srv EXCEPT !.conn = Nil,
                                 !.err = HandlerErr("pwreg", WriteErr)]
           \/ srv' = [srv EXCEPT !.users[u.Username] = u,
                                 !.conn = Nil,
                                 !.err = NoErr]
    /\ UNCHANGED <<protoVars, ae, oprf, again, conc, samp, call>>

\* doAuth up to the first write: AuthInit
ClientAuthInit ==
    /\ srv.conn = Nil
    /\ \E username \in SrvUsernames, password \in SrvPasswords,
          x \in PrivateKeys :
         \E ar \in dhOprf1(password) :
           LET res == AuthInit(username, password, ar, x)
           IN  srv' = [srv EXCEPT !.conn = Conn("auth", res.sess, res.msg1),
                                  !.err = NoErr]
    /\ UNCHANGED <<protoVars, ae, oprf, again, conc, samp, call>>

\* handleAuth that calls Auth1 without the lookup's ok test: for a username
\* that is not in the map it runs with the User of another name
HandleAuthMsg1_NoLookup ==
    /\ srv.conn # Nil
    /\ srv.conn.kind = "auth" /\ srv.conn.step = "msg1"
    /\ \E name \in SrvUsernames, y \in PrivateKeys :
         /\ srv.users[name] # Nil
         /\ LET res == Auth1(ServerKey, srv.users[name], srv.conn.msg, y)
            IN  srv' = IF res.err # NoErr
                       THEN [srv EXCEPT !.conn = Nil,
                                        !.err = HandlerErr("auth", res.err)]
                       ELSE [srv EXCEPT !.conn.step = "msg2",
                                        !.conn.session = res.sess,
                                        !.conn.msg = res.msg2]
    /\ UNCHANGED <<protoVars, ae, oprf, again, conc, samp, call>>

\* handleAuth up to the read of message 3: the lookup in users, Auth1
HandleAuthMsg1 ==
    /\ srv.conn # Nil
    /\ srv.conn.kind = "auth" /\ srv.conn.step = "msg1"
    /\ LET u == srv.users[srv.conn.msg.Username]
       IN  IF u = Nil
           THEN srv' = [srv EXCEPT !.conn = Nil,
                                   !.err = HandlerErr("auth", "No such user")]
           ELSE \E y \in PrivateKeys :
                  LET res == Auth1(ServerKey, u, srv.conn.msg, y)
                  IN  srv' = IF res.err # NoErr
                             THEN [srv EXCEPT
                                     !.conn = Nil,
                                     !.err = HandlerErr("auth", res.err)]
                             ELSE [srv EXCEPT !.conn.step = "msg2",
                                              !.conn.session = res.sess,
                                              !.conn.msg = res.msg2]
    /\ UNCHANGED <<protoVars, ae, oprf, again, conc, samp, call>>

\* doAuth from the read of message 2: Auth2; after an error the client exits
\* and the server's read of message 3 fails
ClientAuth2 ==
    /\ srv.conn # Nil
    /\ srv.conn.kind = "auth" /\ srv.conn.step = "msg2"
    /\ LET res == Auth2(srv.conn.csess, srv.conn.msg)
       IN  srv' = IF res.err # NoErr
                  THEN [srv EXCEPT !.conn = Nil,
                                   !.err = HandlerErr("auth", ReadErr)]
                  ELSE [srv EXCEPT !.conn.step = "msg3",
                                   !.conn.msg = res.msg3]
    /\ UNCHANGED <<protoVars, ae, oprf, again, conc, samp, call>>

\* handleAuth from the read of message 3: Auth3
HandleAuthMsg3 ==
    /\ srv.conn # Nil
    /\ srv.conn.kind = "auth" /\ srv.conn.step = "msg3"
    /\ LET res == Auth3(srv.conn.session, srv.conn.msg)
       IN  srv' = [srv EXCEPT !.conn = Nil,
                              !.err = IF res.err # NoErr
                                      THEN HandlerErr("auth", res.err)
                                      ELSE NoErr]
    /\ UNCHANGED <<protoVars, ae, oprf, again, conc, samp, call>>

\* the client closes the connection while the handler waits for a message:
\* util.Read fails and the handler returns the error
ConnClosed ==
    /\ srv.conn # Nil
    /\ srv.conn.step \in {"msg1", "msg3"}
    /\ srv' = [srv EXCEPT !.conn = Nil,
                          !.err = HandlerErr(srv.conn.kind, ReadErr)]
    /\ UNCHANGED <<protoVars, ae, oprf, again, conc, samp, call>>

NextServer ==
    \/ ClientPwRegInit
    \/ HandlePwRegMsg1
    \/ ClientPwReg2
    \/ HandlePwRegMsg3
    \/ ClientAuthInit
    \/ HandleAuthMsg1
    \/ ClientAuth2
    \/ HandleAuthMsg3
    \/ ConnClosed

SpecServer == InitServer /\ [][NextServer]_vars

(***************************************************************************)
(* A caller of the package that calls a terminal step a second time with    *)
(* the session and the message of the first call.                          *)
(***************************************************************************)
AgainPwReg2 ==
    /\ again = Nil
    /\ pc = "r3"
    /\ \E privU \in ClientKeys :
         LET res == PwReg2(rcSess, rmsg2, privU, RandIV(0))
         IN  again' = [step |-> "PwReg2", err |-> res.err]
    /\ UNCHANGED <<protoVars, ae, oprf, srv, conc, samp, call>>

\* PwReg3 returns no error
AgainPwReg3 ==
    /\ again = Nil
    /\ pc = "registered"
    /\ LET u == PwReg3(rsSess, rmsg3)
       IN  again' = [step |-> "PwReg3", err |-> NoErr]
    /\ UNCHANGED <<protoVars, ae, oprf, srv, conc, samp, call>>

AgainAuth2 ==
    /\ again = Nil
    /\ pc = "a3"
    /\ LET res == Auth2(cSess, amsg2)
       IN  again' = [step |-> "Auth2", err |-> res.err]
    /\ UNCHANGED <<protoVars, ae, oprf, srv, conc, samp, call>>

AgainAuth3 ==
    /\ again = Nil
    /\ pc = "done"
    /\ LET res == Auth3(sSess, amsg3)
       IN  again' = [step |-> "Auth3", err |-> res.err]
    /\ UNCHANGED <<protoVars, ae, oprf, srv, conc, samp, call>>

NextReuse ==
    \/ StepPwRegInit
    \/ StepPwReg1
    \/ StepPwReg2
    \/ StepPwReg3
    \/ StepAuthInit
    \/ StepAuth1
    \/ StepAuth2
    \/ StepAuth3
    \/ AgainPwReg2
    \/ AgainPwReg3
    \/ AgainAuth2
    \/ AgainAuth3

SpecReuse == Init /\ [][NextReuse]_vars

(***************************************************************************)
(* Replay: after a run of the honest parties a second AuthMsg1 for the same *)
(* user reaches the server, which opens a second session with Auth1, and    *)
(* the AuthMsg3 recorded in the first run is handed to Auth3 with it.       *)
(***************************************************************************)
\* the ephemeral public values of the second AuthMsg1: any the client can
\* generate, or the recorded one plus p (Auth1 does not check the value)
ReplayPubs(recorded) ==
    {GeneratePublicKey(x) : x \in PrivateKeys} \cup {recorded + P}

ReplayAuthMsg3 ==
    /\ again = Nil
    /\ pc \in {"a3", "done"}
    /\ \E dhPubClient \in ReplayPubs(amsg1.DhPubClient), y \in PrivateKeys :
         LET msg1 == [amsg1 EXCEPT !.DhPubClient = dhPubClient]
             second == Auth1(authPrivS, user, msg1, y)
             res == Auth3(second.sess, amsg3)
         IN  again' = [step |-> "Replay", err |-> res.err,
                       sess |-> second.sess]
    /\ UNCHANGED <<protoVars, ae, oprf, srv, conc, samp, call>>

NextReplay ==
    \/ StepPwRegInit
    \/ StepPwReg1
    \/ StepPwReg2
    \/ StepPwReg3
    \/ StepAuthInit
    \/ StepAuth1
    \/ StepAuth2
    \/ StepAuth3
    \/ ReplayAuthMsg3

SpecReplay == Init /\ [][NextReplay]_vars

(***************************************************************************)
(* cmd/server as main runs it: go handleConn(conn) for every accepted       *)
(* connection, all goroutines sharing the map users.  An access to the map  *)
(* takes time: it begins in one step and ends in another.                   *)
(***************************************************************************)
\* the number of connections that are served at the same time
MaxConns == 2

Conns == 1..MaxConns

\* the User that handlePwReg has after PwReg1 with salt k and PwReg3, for a
\* client that ran PwRegInit and PwReg2
RegisteredUser(username, password, k, privU) ==
    LET ar == CHOOSE x \in dhOprf1(password) : TRUE
        i == PwRegInit(username, password, 512, ar)
        r1 == PwReg1(ServerKey, i.msg1, k)
        r2 == PwReg2(i.sess, r1.msg2, privU, RandIV(0))
    IN  PwReg3(r1.sess, r2.msg3)

\* a goroutine that serves no connection
Idle == [pc |-> "idle", name |-> "", user |-> Nil]

InitConc ==
    /\ InitProto
    /\ ae = Nil
    /\ oprf = Nil
    /\ srv = Nil
    /\ again = Nil
    /\ conc = [users |-> [u \in SrvUsernames |-> Nil],
               g |-> [i \in Conns |-> Idle],
               fatal |-> FALSE]
    /\ samp = Nil
    /\ call = Nil

\* goroutine i runs an access to the map
Storing(i) == conc.g[i].pc = "storing"
Looking(i) == conc.g[i].pc = "looking"

\* another goroutine's access that is not ordered with an access of i
WriteInProgress(i) == \E j \in Conns \ {i} : Storing(j)
AccessInProgress(i) == \E j \in Conns \ {i} : Storing(j) \/ Looking(j)

\* handlePwReg of goroutine i up to the assignment users[user.Username] =
\* user, which begins
HandlePwRegToStore(i) ==
    /\ ~conc.fatal
    /\ conc.g[i].pc = "idle"
    /\ \E name \in SrvUsernames, k \in PrivateKeys :
         conc' = [conc EXCEPT !.g[i] =
                    [pc |-> "storing", name |-> name,
                     user |-> RegisteredUser(name, "password", k, "U")]]
    /\ UNCHANGED <<protoVars, ae, oprf, srv, again, samp, call>>

\* the assignment of goroutine i ends; if it ran together with another
\* goroutine's access the runtime may have seen it and stopped the process
\* (fatal error: concurrent map writes)
EndStore(i) ==
    /\ ~conc.fatal
    /\ Storing(i)
    /\ \/ conc' = [conc EXCEPT !.users[conc.g[i].name] = conc.g[i].user,
                                !.g[i] = Idle]
       \/ /\ AccessInProgress(i)
          /\ conc' = [conc EXCEPT !.fatal = TRUE]
    /\ UNCHANGED <<protoVars, ae, oprf, srv, again, samp, call>>

\* handleAuth of goroutine i up to the lookup users[msg1.Username], which
\* begins
HandleAuthToLookup(i) ==
    /\ ~conc.fatal
    /\ conc.g[i].pc = "idle"
    /\ \E name \in SrvUsernames :
         conc' = [conc EXCEPT !.g[i] =
                    [pc |-> "looking", name |-> name, user |-> Nil]]
    /\ UNCHANGED <<protoVars, ae, oprf, srv, again, samp, call>>

\* the lookup of goroutine i ends and the handler runs to its return; if the
\* lookup ran together with another goroutine's assignment the runtime may
\* have seen it and stopped the process (fatal error: concurrent map read and
\* map write)
EndLookup(i) ==
    /\ ~conc.fatal
    /\ Looking(i)
    /\ \/ conc' = [conc EXCEPT !.g[i] = Idle]
       \/ /\ WriteInProgress(i)
          /\ conc' = [conc EXCEPT !.fatal = TRUE]
    /\ UNCHANGED <<protoVars, ae, oprf, srv, again, samp, call>>

NextConc ==
    \E i \in Conns :
        \/ HandlePwRegToStore(i)
        \/ EndStore(i)
        \/ HandleAuthToLookup(i)
        \/ EndLookup(i)

SpecConc == InitConc /\ [][NextConc]_vars

(***************************************************************************)
(* The sampling loops: GeneratePrivateKey draws from rand.Reader until the  *)
(* key is not zero, dhOprf1 calls it until a is outside the small subgroup. *)
(* rand.Reader is taken not to fail.                                        *)
(***************************************************************************)
\* a *big.Int that is not assigned yet
Unset == 0 - 1

\* rand.Int(rand.Reader, max): an integer of [0, max)
RandInt(max) == 0..(max - 1)

\* one pass of the loop of GeneratePrivateKey with the same test inverted
GeneratePrivateKeyPass_ReturnsZero(key) ==
    IF key = 0
    THEN [pc |-> "returned", key |-> key]
    ELSE [pc |-> "draw", key |-> Unset]

\* one pass of the loop of GeneratePrivateKey on the key rand.Int returned
GeneratePrivateKeyPass(key) ==
    IF key # 0
    THEN [pc |-> "returned", key |-> key]
    ELSE [pc |-> "draw", key |-> Unset]

\* one pass of dhOprf1 that tries the same r again
dhOprf1Pass_SameR(x, r) ==
    LET a == dhOprf1A(x, r)
    IN  IF ~IsInSmallSubgroup(a, P)
        THEN [pc |-> "returned", a |-> a, r |-> r]
        ELSE [pc |-> "blind", a |-> Unset, r |-> r]

\* one pass of the loop of dhOprf1 with the r GeneratePrivateKey returned
dhOprf1Pass(x, r) ==
    LET a == dhOprf1A(x, r)
    IN  IF ~IsInSmallSubgroup(a, P)
        THEN [pc |-> "returned", a |-> a, r |-> r]
        ELSE [pc |-> "draw", a |-> Unset, r |-> Unset]

NoCall == [fn |-> "", x |-> "", pc |-> "idle", key |-> Unset, a |-> Unset,
           r |-> Unset, retried |-> FALSE]

InitSample ==
    /\ InitProto
    /\ ae = Nil
    /\ oprf = Nil
    /\ srv = Nil
    /\ again = Nil
    /\ conc = Nil
    /\ samp = NoCall
    /\ call = Nil

CallGeneratePrivateKey ==
    /\ samp.pc = "idle"
    /\ samp' = [NoCall EXCEPT !.fn = "GeneratePrivateKey", !.pc = "draw"]
    /\ UNCHANGED <<protoVars, ae, oprf, srv, again, conc, call>>

CallDhOprf1Loop ==
    /\ samp.pc = "idle"
    /\ \E x \in OprfPasswords :
         samp' = [NoCall EXCEPT !.fn = "dhOprf1", !.x = x, !.pc = "draw"]
    /\ UNCHANGED <<protoVars, ae, oprf, srv, again, conc, call>>

\* key, err := rand.Int(rand.Reader, g.P) returns k
RandRead(k) ==
    /\ samp.pc = "draw"
    /\ k \in RandInt(P)
    /\ samp' = [samp EXCEPT !.key = k, !.pc = "sign"]
    /\ UNCHANGED <<protoVars, ae, oprf, srv, again, conc, call>>

\* if key.Sign() != 0 { return key, nil }, else the next pass
CheckSign ==
    /\ samp.pc = "sign"
    /\ LET res == GeneratePrivateKeyPass(samp.key)
       IN  samp' =
             IF res.pc = "draw"
             THEN [samp EXCEPT !.pc = "draw", !.key = Unset, !.retried = TRUE]
             ELSE IF samp.fn = "GeneratePrivateKey"
             THEN [samp EXCEPT !.pc = "returned", !.key = res.key]
             ELSE [samp EXCEPT !.pc = "blind", !.key = Unset, !.r = res.key]
    /\ UNCHANGED <<protoVars, ae, oprf, srv, again, conc, call>>

\* dhOprf1 computes a and returns, or tries again with a new r
Blind ==
    /\ samp.pc = "blind"
    /\ LET res == dhOprf1Pass(samp.x, samp.r)
       IN  samp' =
             IF res.pc = "returned"
             THEN [samp EXCEPT !.pc = "returned", !.a = res.a, !.r = res.r]
             ELSE [samp EXCEPT !.pc = res.pc, !.r = res.r, !.retried = TRUE]
    /\ UNCHANGED <<protoVars, ae, oprf, srv, again, conc, call>>

\* the caller has the result
SampleReturned ==
    /\ samp.pc = "returned"
    /\ samp' = NoCall
    /\ UNCHANGED <<protoVars, ae, oprf, srv, again, conc, call>>

NextSample ==
    \/ CallGeneratePrivateKey
    \/ CallDhOprf1Loop
    \/ \E k \in RandInt(P) : RandRead(k)
    \/ CheckSign
    \/ Blind
    \/ SampleReturned

SpecSample == InitSample /\ [][NextSample]_vars

\* a fair random source: a value that rand.Int can return at a point the loop
\* reaches again and again is returned there at some time.  The condition is
\* put on the values of PrivateKeys only, which asks less of the source than
\* one on every value of RandInt(P).  The code between two reads runs on.
FairRandom == \A k \in PrivateKeys : SF_vars(RandRead(k))

SpecSampleFair ==
    /\ InitSample
    /\ [][NextSample]_vars
    /\ WF_vars(CheckSign)
    /\ WF_vars(Blind)
    /\ FairRandom

(***************************************************************************)
(* The functions of the group, called as the tests of internal/pkg/dh and   *)
(* of package opaque call them, on small moduli.                            *)
(***************************************************************************)
MaxPrime == 263
MaxX == 400

\* isSafePrime(p) of the tests: p and (p-1)/2 are prime
IsPrime(n) == n > 1 /\ \A d \in 2..(n - 1) : n % d # 0
isSafePrime(p) == IsPrime(p) /\ IsPrime((p - 1) \div 2)
SafePrimes == {p \in 5..MaxPrime : isSafePrime(p)}

\* the moduli Group.Bytes is called with: those of TestBytes and the ones
\* next to a change of the byte length
BytesModuli == {11, 255, 256, 263, 373, 65536}

\* the groups dhgroup.Bytes is called with: p with the bitLen of the struct
TestGroups == {[p |-> 11, bitLen |-> 8], [p |-> 263, bitLen |-> 16],
               [p |-> 373, bitLen |-> 16]}

\* the integers handed to Bytes
BytesInputs == (0 - MaxX)..MaxX

InitGroup ==
    /\ InitProto
    /\ ae = Nil
    /\ oprf = Nil
    /\ srv = Nil
    /\ again = Nil
    /\ conc = Nil
    /\ samp = Nil
    /\ call = [fn |-> ""]

CallIsInSmallSubgroup ==
    /\ call.fn = ""
    /\ \E p \in SafePrimes : \E x \in 1..(p - 1) :
         call' = [fn |-> "IsInSmallSubgroup", p |-> p, x |-> x,
                  out |-> IsInSmallSubgroup(x, p)]
    /\ UNCHANGED <<protoVars, ae, oprf, srv, again, conc, samp>>

CallGroupBytes ==
    /\ call.fn = ""
    /\ \E p \in BytesModuli, x \in BytesInputs :
         call' = [fn |-> "Group.Bytes", p |-> p, x |-> x,
                  out |-> GroupBytes(p, x)]
    /\ UNCHANGED <<protoVars, ae, oprf, srv, again, conc, samp>>

CallDhgroupBytes ==
    /\ call.fn = ""
    /\ \E g \in TestGroups, x \in BytesInputs :
         LET res == dhgroupBytes(g, x)
         IN  call' = [fn |-> "dhgroup.Bytes", p |-> g.p, bitLen |-> g.bitLen,
                      x |-> x, panic |-> res.panic, out |-> res.out]
    /\ UNCHANGED <<protoVars, ae, oprf, srv, again, conc, samp>>

NextGroup ==
    \/ CallIsInSmallSubgroup
    \/ CallGroupBytes
    \/ CallDhgroupBytes

SpecGroup == InitGroup /\ [][NextGroup]_vars

(***************************************************************************)
(* addPadding followed by removePadding, as TestPadding calls them.         *)
(***************************************************************************)
MaxPadLen == 33

\* the block sizes: aes.BlockSize, which AuthEnc and AuthDec pass, and 8
PadBlockSizes == {8, BlockSize}

\* the inputs: n bytes 7 as in TestPadding, or n bytes that read as padding
PadInputs ==
    {[i \in 1..n |-> Byte(c)] : n \in 0..MaxPadLen, c \in {1, 7, 16}}

InitPadding ==
    /\ InitProto
    /\ ae = Nil
    /\ oprf = Nil
    /\ srv = Nil
    /\ again = Nil
    /\ conc = Nil
    /\ samp = Nil
    /\ call = [fn |-> ""]

\* padded := addPadding(bs, tst.in)
CallAddPadding ==
    /\ call.fn = ""
    /\ \E bs \in PadBlockSizes, input \in PadInputs :
         call' = [fn |-> "addPadding", bs |-> bs, in |-> input,
                  padded |-> addPadding(bs, input)]
    /\ UNCHANGED <<protoVars, ae, oprf, srv, again, conc, samp>>

\* orig := removePadding(bs, padded)
CallRemovePadding ==
    /\ call.fn = "addPadding"
    /\ LET res == removePadding(call.bs, call.padded)
       IN  call' = [fn |-> "removePadding", bs |-> call.bs, in |-> call.in,
                    padded |-> call.padded, panic |-> res.panic,
                    orig |-> res.out]
    /\ UNCHANGED <<protoVars, ae, oprf, srv, again, conc, samp>>

NextPadding ==
    \/ CallAddPadding
    \/ CallRemovePadding

SpecPadding == InitPadding /\ [][NextPadding]_vars

(***************************************************************************)
(* encodeEnvU followed by decodeEnvU, as TestEnvU calls them, and           *)
(* decodeEnvU on PEM data whose blocks were moved, dropped or renamed.      *)
(***************************************************************************)
\* the RSA keys of the envelopes
EnvKeys == {"U", "U2", ServerKey, ImpostorKey}

\* genEnvU := &envU{privU: privU, pubS: &privS.PublicKey}
Envelopes == {[privU |-> u, pubS |-> PublicKey(k)] : u, k \in EnvKeys}

\* PEM data made of the two blocks of an encoded envelope: swapped, without
\* its second, first or both blocks, with two private or two public blocks,
\* or with the Type line of one block changed
PemVariants ==
    {"swapped", "first only", "second only", "empty", "two private",
     "two public", "first renamed", "second renamed"}

PemVariant(pemdata, v) ==
    CASE v = "swapped" -> <<pemdata[2], pemdata[1]>>
      [] v = "first only" -> <<pemdata[1]>>
      [] v = "second only" -> <<pemdata[2]>>
      [] v = "empty" -> <<>>
      [] v = "two private" -> <<pemdata[1], pemdata[1]>>
      [] v = "two public" -> <<pemdata[2], pemdata[2]>>
      [] v = "first renamed" ->
           <<[pemdata[1] EXCEPT !.Type = "CERTIFICATE"], pemdata[2]>>
      [] v = "second renamed" ->
           <<pemdata[1], [pemdata[2] EXCEPT !.Type = "CERTIFICATE"]>>

InitEnvU ==
    /\ InitProto
    /\ ae = Nil
    /\ oprf = Nil
    /\ srv = Nil
    /\ again = Nil
    /\ conc = Nil
    /\ samp = Nil
    /\ call = [fn |-> ""]

\* encodedEnvU := encodeEnvU(genEnvU)
CallEncodeEnvU ==
    /\ call.fn = ""
    /\ \E env \in Envelopes :
         call' = [fn |-> "encodeEnvU", env |-> env, pem |-> encodeEnvU(env),
                  variant |-> ""]
    /\ UNCHANGED <<protoVars, ae, oprf, srv, again, conc, samp>>

\* other PEM data takes the place of the encoded envelope
ChangePem ==
    /\ call.fn = "encodeEnvU"
    /\ call.variant = ""
    /\ \E v \in PemVariants :
         call' = [call EXCEPT !.pem = PemVariant(call.pem, v), !.variant = v]
    /\ UNCHANGED <<protoVars, ae, oprf, srv, again, conc, samp>>

\* decodedEnvU, err := decodeEnvU(encodedEnvU)
CallDecodeEnvU ==
    /\ call.fn = "encodeEnvU"
    /\ LET res == decodeEnvU(call.pem)
       IN  call' = [fn |-> "decodeEnvU", env |-> call.env, pem |-> call.pem,
                    variant |-> call.variant,
                    err |-> res.err, out |-> res.env]
    /\ UNCHANGED <<protoVars, ae, oprf, srv, again, conc, samp>>

NextEnvU ==
    \/ CallEncodeEnvU
    \/ ChangePem
    \/ CallDecodeEnvU

SpecEnvU == InitEnvU /\ [][NextEnvU]_vars

(***************************************************************************)
(* Properties                                                              *)
(***************************************************************************)
\* the steps that have returned
PwReg1Ran == pc \notin {"start", "r1"}
Auth1Ran == pc \in {"a2", "a3", "done", "authfail"}
Auth2Ran == pc \in {"a2fail", "a3", "done"}
Auth3Ran == pc = "done"

Msg3Fields == {"AuthMsg3", "AuthMsg3.DhSig", "AuthMsg3.DhMac"}

\* the client authenticates with the password that was registered
SamePassword == cSess # Nil /\ cSess.password = regPw

\* C1: after an unmodified registration, an unmodified authentication run
\* with the registered password and the server's key succeeds at every step,
\* and the secret of Auth2 equals the secret of Auth3 and is 16 bytes long.
C1_HonestRunSucceeds ==
    (tampered = {}) =>
        /\ pc # "regfail"
        /\ regErr = NoErr
        /\ (Auth1Ran /\ authPrivS = ServerKey) => (pc # "authfail" /\ err1 = NoErr)
        /\ (Auth2Ran /\ authPrivS = ServerKey /\ SamePassword) =>
              /\ cErr = NoErr
              /\ cSecret # Nil
              /\ cSecret.len = 16
        /\ (Auth3Ran /\ authPrivS = ServerKey /\ SamePassword) =>
              /\ sErr = NoErr
              /\ sSecret = cSecret
              /\ sSecret.len = 16

C1_Witness ==
    /\ pc = "done" /\ tampered = {} /\ authPrivS = ServerKey /\ SamePassword
    /\ sErr = NoErr /\ cErr = NoErr

\* C2: whatever the attacker changed in AuthMsg1, AuthMsg2 or AuthMsg3, if
\* Auth2 and Auth3 both return a nil error, the two secrets are equal.
C2_AgreementUnderTampering ==
    (Auth3Ran /\ cErr = NoErr /\ sErr = NoErr) => cSecret = sSecret

C2_Witness ==
    /\ Auth3Ran /\ cErr = NoErr /\ sErr = NoErr
    /\ tampered # {}
    /\ cSecret = sSecret

\* C3: with a password other than the registered one (and the v and b the
\* server sent, and an envelope of the length the server stored), Auth2 fails
\* with "Authtag mismatch", returns a nil secret and the empty AuthMsg3.
C3_WrongPassword ==
    (/\ Auth2Ran
     /\ ~SamePassword
     /\ tampered \cap {"AuthMsg2.V", "AuthMsg2.B"} = {}
     /\ Len(amsg2.EnvU) = Len(user.EnvU)) =>
        /\ cErr = "Authtag mismatch"
        /\ cSecret = Nil
        /\ (tampered \cap Msg3Fields = {}) => amsg3 = EmptyAuthMsg3

C3_Witness ==
    /\ Auth2Ran /\ ~SamePassword /\ tampered = {}
    /\ cErr = "Authtag mismatch" /\ amsg3 = EmptyAuthMsg3

\* C4: Auth3 returns a nil error only if msg3.DhSig verifies under user.PubU
\* over the transcript of the session and msg3.DhMac is the MAC of user.PubU
\* under the MAC key of the session; then the client's Auth2 had succeeded,
\* so the empty AuthMsg3 of a failed Auth2 is never accepted.
C4_Auth3OnlyForClient ==
    (Auth3Ran /\ sErr = NoErr) =>
        /\ VerifyPSS(user.PubU,
                     Transcript(sSess.dhPubClient, sSess.dhPubServer),
                     amsg3.DhSig) = NoErr
        /\ amsg3.DhMac = computeDhMac(sSess.dhMacKey, user.PubU)
        /\ cErr = NoErr
        /\ amsg3 # EmptyAuthMsg3
        /\ SamePassword

C4_Witness ==
    /\ Auth3Ran /\ sErr = NoErr /\ sSecret # Nil
    /\ amsg3.DhSig.signer \in ClientKeys

\* C5: Auth2 returns a nil error only if msg2.DhSig was made with the private
\* key of the server public key sealed in the envelope, over the transcript of
\* the X the client sent and the Y it received, and msg2.DhMac is the MAC of
\* that public key under the key derived from Y^x; Auth1 run with another
\* key on the stored User never makes Auth2 succeed.
C5_Auth2OnlyForServer ==
    (Auth2Ran /\ cErr = NoErr) =>
        /\ PublicKey(amsg2.DhSig.signer) = PublicKey(ServerKey)
        /\ amsg2.DhSig.signer = ServerKey
        /\ ~amsg2.DhSig.flip
        /\ amsg2.DhSig.digest =
              Transcript(cSess.dhPubClient, amsg2.DhPubServer)
        /\ amsg2.DhMac =
              computeDhMac(dhSecrets(cSess.x, amsg2.DhPubServer).dhMacKey,
                           PublicKey(ServerKey))
        /\ authPrivS = ServerKey

C5_Witness ==
    /\ pc = "a3" /\ cErr = NoErr /\ authPrivS = ServerKey
    /\ amsg2.DhSig.signer = ServerKey


\* x is an element of Z^*_p outside the two-element subgroup
GoodElement(x) == 0 < x /\ x < P /\ x \notin {1, P - 1}

\* PwReg2 has returned
PwReg2Ran == pc \in {"r3", "registered"} \/ (pc = "regfail" /\ rmsg2 # Nil)

\* C6: every group element received from the peer (a in PwReg1 and Auth1, v
\* and b in PwReg2 and Auth2, DhPubClient in Auth1, DhPubServer in Auth2)
\* satisfies 0 < x < p and x not in {1, p-1} whenever the step that received
\* it returned no error.
C6_EveryElementChecked ==
    /\ (pc \in {"r2", "r3", "registered"}) => GoodElement(rmsg1.A)
    /\ (pc \in {"r3", "registered"}) =>
          GoodElement(rmsg2.V) /\ GoodElement(rmsg2.B)
    /\ (Auth1Ran /\ err1 = NoErr) =>
          GoodElement(amsg1.A) /\ GoodElement(amsg1.DhPubClient)
    /\ (Auth2Ran /\ cErr = NoErr) =>
          /\ GoodElement(amsg2.V) /\ GoodElement(amsg2.B)
          /\ GoodElement(amsg2.DhPubServer)

\* C7: if only the ephemeral public values were changed in flight, and one
\* side received an integer different from the one its peer sent, Auth2 fails
\* with the RSA verification error and returns no secret.
C7_ChangedPublicRejected ==
    (/\ Auth2Ran
     /\ SamePassword
     /\ authPrivS = ServerKey
     /\ (tampered \ Msg3Fields) \subseteq
            {"AuthMsg1.DhPubClient", "AuthMsg2.DhPubServer"}
     /\ \/ sSess.dhPubClient # cSess.dhPubClient
        \/ amsg2.DhPubServer # sSess.dhPubServer) =>
        /\ cErr = "crypto/rsa: verification error"
        /\ cSecret = Nil

\* the error dhOprf2 is to return for a
ExpectedOprf2Err(a) ==
    IF a <= 0 \/ a >= P THEN "a is not in D-H group"
    ELSE IF a = 1 \/ a = P - 1 THEN "a is in a small subgroup"
    ELSE NoErr

\* C8: PwReg1 and Auth1 reject a with "a is not in D-H group" when a <= 0 or
\* a >= p and with "a is in a small subgroup" when a is 1 or p-1, the
\* in-group check first; then no session and no message 2 are returned.
C8_Oprf2Rejects ==
    /\ (pc \in {"r2", "r3", "registered", "regfail"}
          /\ ExpectedOprf2Err(rmsg1.A) # NoErr) =>
          /\ pc = "regfail"
          /\ regErr = ExpectedOprf2Err(rmsg1.A)
          /\ rsSess = Nil
          /\ rmsg2 = Nil
    /\ (Auth1Ran /\ ExpectedOprf2Err(amsg1.A) # NoErr) =>
          /\ pc = "authfail"
          /\ err1 = ExpectedOprf2Err(amsg1.A)
          /\ sSess = Nil
          /\ amsg2 = Nil

C8_Witness ==
    /\ pc = "authfail"
    /\ amsg1.A = 0 - 1
    /\ err1 = "a is not in D-H group"

\* the error dhOprf3 is to return for v and b
ExpectedOprf3Err(v, b) ==
    IF v <= 0 \/ v >= P THEN "v is not in D-H group"
    ELSE IF v = 1 \/ v = P - 1 THEN "v is in a small subgroup"
    ELSE IF b <= 0 \/ b >= P THEN "b is not in D-H group"
    ELSE IF b = 1 \/ b = P - 1 THEN "b is in a small subgroup"
    ELSE NoErr

\* C9: PwReg2 and Auth2 reject message 2 with the error naming the first
\* offending value in the order v in group, v in small subgroup, b in group,
\* b in small subgroup; nothing is returned but the error.
C9_Oprf3Rejects ==
    /\ (PwReg2Ran /\ ExpectedOprf3Err(rmsg2.V, rmsg2.B) # NoErr) =>
          /\ pc = "regfail"
          /\ regErr = ExpectedOprf3Err(rmsg2.V, rmsg2.B)
          /\ rmsg3 = Nil
    /\ (Auth2Ran /\ ExpectedOprf3Err(amsg2.V, amsg2.B) # NoErr) =>
          /\ cErr = ExpectedOprf3Err(amsg2.V, amsg2.B)
          /\ cSecret = Nil
          /\ (tampered \cap Msg3Fields = {}) => amsg3 = EmptyAuthMsg3

C9_Witness ==
    /\ Auth2Ran
    /\ amsg2.V = 1 /\ amsg2.B = 0
    /\ cErr = "v is in a small subgroup"

\* the fields that decide whether the client opens the envelope
EnvelopeFields ==
    {"AuthMsg1.A", "AuthMsg2.V", "AuthMsg2.B", "AuthMsg2.EnvU"}

\* C10: with the registered password and an envelope that opens, a changed
\* msg2.DhSig makes Auth2 fail with the RSA verification error (also when
\* msg2.DhMac is changed too), and a changed msg2.DhMac alone makes it fail
\* with "MAC mismatch".
C10_Msg2SigBeforeMac ==
    (Auth2Ran /\ SamePassword /\ tampered \cap EnvelopeFields = {}) =>
        /\ ("AuthMsg2.DhSig" \in tampered) =>
              (cErr = "crypto/rsa: verification error" /\ cSecret = Nil)
        /\ (tampered \ Msg3Fields = {"AuthMsg2.DhMac"}
              /\ authPrivS = ServerKey) =>
              (cErr = "MAC mismatch" /\ cSecret = Nil)

C10_Witness ==
    /\ Auth2Ran /\ SamePassword /\ authPrivS = ServerKey
    /\ tampered = {"AuthMsg2.DhSig", "AuthMsg2.DhMac"}
    /\ cErr = "crypto/rsa: verification error"


\* C11: a changed msg3.DhSig makes Auth3 fail with the RSA verification error
\* (also when msg3.DhMac is changed too), a changed msg3.DhMac alone in the
\* message 3 of a successful Auth2 makes it fail with "MAC mismatch", and a
\* failed Auth3 returns a nil secret.
C11_Msg3SigBeforeMac ==
    Auth3Ran =>
        /\ ("AuthMsg3.DhSig" \in tampered) =>
              sErr = "crypto/rsa: verification error"
        /\ (tampered = {"AuthMsg3.DhMac"} /\ cErr = NoErr) =>
              sErr = "MAC mismatch"
        /\ (sErr # NoErr) => sSecret = Nil

C11_Witness ==
    /\ Auth3Ran /\ cErr = NoErr
    /\ tampered = {"AuthMsg3.DhSig", "AuthMsg3.DhMac"}
    /\ sErr = "crypto/rsa: verification error"
    /\ sSecret = Nil


\* Auth2 has called AuthDec on the envelope it received
EnvelopeGiven ==
    Auth2Ran /\ ExpectedOprf3Err(amsg2.V, amsg2.B) = NoErr

\* the envelope does not open: it is not the stored one, or the password is
\* not the registered one
EnvelopeRefused == amsg2.EnvU # user.EnvU \/ ~SamePassword

Sealed == ae # Nil /\ ae.pc \in {"sealed", "opened"}
Opened == ae # Nil /\ ae.pc = "opened"

\* C13: for every 16-byte key, every message (the empty one and those whose
\* length is a multiple of 16 included) and every IV, AuthDec under the key
\* of the unchanged output of AuthEnc returns the message and a nil error.
C13_RoundTrip ==
    (Opened /\ ae.mod = "none" /\ ae.decKey = ae.key) =>
        /\ ae.res.err = NoErr
        /\ ae.res.pt = ae.msg

C13_Witness ==
    /\ Opened /\ ae.mod = "none" /\ ae.decKey = ae.key
    /\ Len(ae.msg) = 16
    /\ ae.msg[16] = Byte(16)
    /\ ae.res.err = NoErr
    /\ ae.res.pt = ae.msg

\* C14: AuthDec of an output of AuthEnc under another 16-byte key, and
\* AuthDec of the output with one bit flipped in any byte (of the IV, the
\* ciphertext or the tag), fails with "Authtag mismatch" and returns no
\* plaintext.
C14_WrongKeyOrFlippedBit ==
    (/\ Opened
     /\ ae.decKey.len = 16
     /\ \/ ae.mod = "none" /\ ae.decKey # ae.key
        \/ ae.mod = "flip") =>
        /\ ae.res.err = "Authtag mismatch"
        /\ ae.res.pt = Nil

C14_Witness ==
    /\ Opened /\ ae.mod = "flip" /\ ae.decKey = ae.key
    /\ ae.input[Len(ae.input)] # ae.sealed[Len(ae.sealed)]
    /\ ae.res.err = "Authtag mismatch"

\* C15 as stated: the output of AuthEnc is the 16 bytes of the IV, the
\* ciphertext and the 32 bytes of the tag; its length is a multiple of 16,
\* and it is exactly 48 for the empty message.
C15_EmptySealsTo48 ==
    Sealed =>
        LET n == Len(ae.sealed)
        IN  /\ n % 16 = 0
            /\ SubSeq(ae.sealed, 1, 16) = ae.iv
            /\ SubSeq(ae.sealed, n - 31, n) =
                  Chunk(Hmac(HkdfRead(ae.key, 16, 16),
                             SubSeq(ae.sealed, 1, n - 32)), 32)
            /\ (Len(ae.msg) = 0) => n = 48

\* C15 amended: the output of AuthEnc is the 16 bytes of the IV, 16 bytes of
\* ciphertext for every 16 bytes of the message begun or completed (one
\* block of padding for the empty message), and the 32 bytes of the tag over
\* what precedes; its length is a multiple of 16, at least 64, and exactly 64
\* for the empty message.
C15_SealedLayout ==
    Sealed =>
        LET n == Len(ae.sealed)
        IN  /\ n % 16 = 0
            /\ n = 16 + 16 * (Len(ae.msg) \div 16 + 1) + 32
            /\ n >= 64
            /\ (Len(ae.msg) = 0) => n = 64
            /\ SubSeq(ae.sealed, 1, 16) = ae.iv
            /\ SubSeq(ae.sealed, n - 31, n) =
                  Chunk(Hmac(HkdfRead(ae.key, 16, 16),
                             SubSeq(ae.sealed, 1, n - 32)), 32)

C15_Witness ==
    /\ Sealed
    /\ Len(ae.msg) = 0
    /\ Len(ae.sealed) = 64


\* two runs of the OPRF have returned an RPW
TwoRuns == oprf # Nil /\ oprf.pc = "done" /\ oprf.prev # Nil

\* C16: two runs with the same password and the same salt return the same
\* RPW whatever r each run drew, and the RPW is the hash of the password,
\* v = g^k and z = H'(P)^k mod p.
C16_StableAcrossR ==
    (TwoRuns /\ oprf.prev.x = oprf.x /\ oprf.prev.k = oprf.k) =>
        /\ oprf.rwd = oprf.prev.rwd
        /\ oprf.rwd = Sha256(<<oprf.x>> \o Bytes(Exp(G, oprf.k, P))
                               \o Bytes(Exp(hashToGroup(oprf.x), oprf.k, P)))

C16_Witness ==
    /\ TwoRuns /\ oprf.prev.x = oprf.x /\ oprf.prev.k = oprf.k
    /\ oprf.prev.r # oprf.r

\* C17 as stated: two runs with different passwords and the same salt, or
\* with the same password and different salts, return different RPWs.
C17_DifferentSaltDifferentRpw ==
    (TwoRuns /\ \/ (oprf.prev.x # oprf.x /\ oprf.prev.k = oprf.k)
                \/ (oprf.prev.x = oprf.x /\ oprf.prev.k # oprf.k)) =>
        oprf.rwd # oprf.prev.rwd

\* C17: two runs with different passwords and the same salt, or with the
\* same password and salts k, k' whose g^k and g^k' differ, return different
\* RPWs; the salts k and k + (p-1)/2 return the same RPW for a password
\* whose H'(P) is a quadratic residue.
C17_DifferentInputDifferentRpw ==
    /\ (TwoRuns /\ \/ (oprf.prev.x # oprf.x /\ oprf.prev.k = oprf.k)
                   \/ (/\ oprf.prev.x = oprf.x
                       /\ Exp(G, oprf.prev.k, P) # Exp(G, oprf.k, P))) =>
           oprf.rwd # oprf.prev.rwd
    /\ (TwoRuns /\ oprf.prev.x = oprf.x /\ oprf.k = oprf.prev.k + Q
          /\ Exp(hashToGroup(oprf.x), Q, P) = 1) =>
           oprf.rwd = oprf.prev.rwd

C17_Witness ==
    /\ TwoRuns /\ oprf.prev.x = oprf.x /\ oprf.prev.k # oprf.k
    /\ Exp(G, oprf.prev.k, P) # Exp(G, oprf.k, P)
    /\ oprf.rwd # oprf.prev.rwd


\* C18: a record stored under a username is not changed or replaced by any
\* later registration or authentication.
C18_StoredRecordNeverReplaced ==
    [][\A u \in SrvUsernames :
          srv.users[u] # Nil => srv'.users[u] = srv.users[u]]_vars


\* C19: a terminal step that is called a second time with the same session
\* (and the same message) does not succeed again.
C19_SessionsSingleUse ==
    again # Nil => again.err # NoErr

\* the zero values of the secrets of a PwRegClientSession
Erased(sess) == sess.password = "" /\ sess.r = 0

\* C20: after PwReg2 has returned, the PwRegClientSession holds neither the
\* password nor the blinding scalar r.
C20_SecretsErasedAfterPwReg2 ==
    (PwReg2Ran /\ rcSess # Nil) => Erased(rcSess)


\* what an observer computes from the fields of a PwRegMsg1 alone: a * g^(-R)
\* when the message carries R, nothing (0) otherwise
ObserverUnblind(msg1) ==
    IF "R" \in DOMAIN msg1
    THEN (msg1.A * ModInverse(Exp(G, msg1.R, P), P)) % P
    ELSE 0

\* C21: the PwRegMsg1 the client sends carries only the username and a, and
\* an observer of it cannot compute a * g^(-r) = H'(password).
C21_Msg1HidesBlinding ==
    (pc = "r1" /\ tampered = {}) =>
        /\ DOMAIN rmsg1 = {"Username", "A"}
        /\ ObserverUnblind(rmsg1) # hashToGroup(regPw)


\* a User with all five fields as a completed registration run sets them
CompleteUser(u) ==
    /\ u.Username \in SrvUsernames
    /\ u.K \in PrivateKeys
    /\ u.V = Exp(G, u.K, P)
    /\ u.EnvU # Nil /\ Len(u.EnvU) >= 4 * BlockSize
    /\ u.PubU \in {PublicKey(privU) : privU \in SrvClientKeys}

\* C22: the users map changes only in the step of handlePwReg that has run
\* PwReg3, and then by the complete User of that run; a handler that returns
\* an error leaves the map as it was.
C22_NoPartialRecord ==
    [][/\ srv.users # srv'.users =>
            /\ srv.conn # Nil
            /\ srv.conn.kind = "pwreg" /\ srv.conn.step = "msg3"
            /\ LET u == PwReg3(srv.conn.session, srv.conn.msg)
               IN  /\ CompleteUser(u)
                   /\ srv'.users = [srv.users EXCEPT ![u.Username] = u]
       /\ srv'.err # NoErr => srv'.users = srv.users]_vars

\* registration runs have failed and nothing is stored
C22_Witness ==
    /\ srv # Nil /\ srv.conn = Nil
    /\ srv.err = HandlerErr("pwreg", "a is not in D-H group")
    /\ \A u \in SrvUsernames : srv.users[u] = Nil


\* C23: the User returned by PwReg3 has the username of the PwRegMsg1 that
\* PwReg1 received, the salt that PwReg1 drew, V = g^K mod p which is the V
\* that PwReg1 sent, and the EnvU and PubU of the PwRegMsg3 received; the V
\* that a later Auth1 sends for that user is the stored V.
C23_UserFields ==
    /\ pc = "registered" =>
          /\ user.Username = rmsg1.Username
          /\ user.K = rsSess.k
          /\ user.V = Exp(G, user.K, P)
          /\ user.V = rsSess.v
          /\ "PwRegMsg2.V" \notin tampered => user.V = rmsg2.V
          /\ user.EnvU = rmsg3.EnvU
          /\ user.PubU = rmsg3.PubU
    /\ (Auth1Ran /\ err1 = NoErr /\ "AuthMsg2.V" \notin tampered) =>
          amsg2.V = user.V

C23_Witness ==
    /\ pc = "a2" /\ err1 = NoErr /\ tampered = {}
    /\ amsg2.V = user.V /\ user.V = Exp(G, user.K, P)


\* the server has an "auth" connection whose AuthMsg1 names a user that is
\* not in the map
UnknownUserAsks ==
    /\ srv.conn # Nil
    /\ srv.conn.kind = "auth" /\ srv.conn.step = "msg1"
    /\ srv.users[srv.conn.msg.Username] = Nil

\* C24: the handler of an authentication request for a username without a
\* stored record returns the error "No such user": the connection ends with
\* no AuthServerSession created and no AuthMsg2 sent, and the map is as it
\* was.
C24_NoSuchUser ==
    [][UnknownUserAsks =>
          /\ srv'.conn = Nil
          /\ srv'.err \in {HandlerErr("auth", "No such user"),
                            HandlerErr("auth", ReadErr)}
          /\ srv'.users = srv.users]_vars

C24_Witness ==
    /\ srv # Nil /\ srv.conn = Nil
    /\ srv.err = HandlerErr("auth", "No such user")


\* C25: an assignment to users by one connection's goroutine never runs at
\* the same time as another connection's assignment or lookup.
C25_StoreAccessSerialized ==
    conc # Nil =>
        \A i \in Conns : Storing(i) => ~AccessInProgress(i)


\* H(encode(client ephemeral public) || encode(server ephemeral public))
ClientFirstDigest(c, s) == Sha256(Bytes(c) \o Bytes(s))

FixedWidthSecret(priv, otherPub) ==
    HkdfRead(Sha256(Bytes(Exp(otherPub, priv, P))), 0, 16)

\* C27: the shared secret of the server's session is derived from the
\* SHA-256 hash of the fixed-width encoding of dhPubClient^y mod p, also
\* when that value has leading zero bytes.
C27_SharedSecretFixedWidth ==
    (Auth1Ran /\ err1 = NoErr) =>
        sSess.dhSharedSecret = FixedWidthSecret(sSess.y, sSess.dhPubClient)


\* AuthDec was given a 16-byte key and an input that passes the length checks
LengthsPass == Opened /\ ae.decKey.len = 16
                 /\ Len(ae.input) >= 3 * 16 /\ Len(ae.input) % 16 = 0

\* the last 32 bytes of the input are the HMAC under the key of the bytes
\* before them
TagMatches ==
    ae.input = Tagged(ae.decKey, SubSeq(ae.input, 1, 16),
                      SubSeq(ae.input, 17, Len(ae.input) - TagSize))

\* what removePadding would do with the decryption of the input's ciphertext
PaddingOf(key, input) ==
    removePadding(BlockSize,
                  CBCDecrypt(HkdfRead(key, 0, 16), SubSeq(input, 1, 16),
                             SubSeq(input, 17, Len(input) - TagSize)))

\* AuthDec ended in a panic of removePadding
Panicked ==
    ae.res.err \in {"panic: removePadding: Input length is not a multiple of block size",
                    "panic: removePadding: Empty input",
                    "panic: removePadding: Invalid padding"}

\* C28: for an input whose tag does not match AuthDec returns "Authtag
\* mismatch" and no plaintext whatever its ciphertext decrypts to; the
\* outcomes of removePadding (a plaintext or a panic) occur only for inputs
\* whose tag matched.
C28_MacBeforePadding ==
    LengthsPass =>
        /\ ~TagMatches =>
              /\ ae.res.err = "Authtag mismatch"
              /\ ae.res.pt = Nil
        /\ (ae.res.err = NoErr \/ Panicked) => TagMatches

\* a byte of the last ciphertext block was flipped: the padding would be
\* invalid, and the error is the tag's
C28_Witness ==
    /\ LengthsPass /\ ae.mod = "flip" /\ ae.decKey = ae.key
    /\ ~TagMatches
    /\ PaddingOf(ae.decKey, ae.input).panic = "removePadding: Invalid padding"
    /\ ae.res.err = "Authtag mismatch"

\* C29: AuthDec returns its failures as errors and never panics, for every
\* 16-byte key and every input.
C29_AuthDecNeverPanics ==
    (Opened /\ ae.decKey.len = 16) => ~Panicked


\* dhOprf2 has returned in the current run of the OPRF
Oprf2Returned == oprf # Nil /\ oprf.pc \in {"o3", "done", "fail"}

\* dhOprf3 has returned, or was not called because dhOprf2 failed
OprfRunOver == oprf # Nil /\ oprf.pc \in {"done", "fail"}

\* C30 as stated: in an unmodified run of the OPRF no check rejects a value,
\* for every r that dhOprf1 returns and every salt k in [1, p-1].
C30_HonestNeverRejected ==
    Oprf2Returned => (oprf.pc # "fail" /\ oprf.err = NoErr)

\* C30: in an unmodified run of the OPRF the a of dhOprf1 passes the checks
\* of dhOprf2 for every r, and v = g^k and b = a^k pass the checks of dhOprf3
\* for every salt k in [1, p-1] that is not a multiple of (p-1)/2; for the
\* salts (p-1)/2 and p-1 v is 1 and dhOprf3 fails with "v is in a small
\* subgroup".
C30_HonestRejectedOnlyForUnitV ==
    /\ Oprf2Returned =>
          oprf.err \notin {"a is not in D-H group", "a is in a small subgroup"}
    /\ (OprfRunOver /\ oprf.k % Q # 0) =>
          (oprf.pc = "done" /\ oprf.err = NoErr)
    /\ (OprfRunOver /\ oprf.k % Q = 0) =>
          /\ oprf.pc = "fail"
          /\ oprf.v = 1
          /\ oprf.err = "v is in a small subgroup"

C30_Witness ==
    /\ OprfRunOver /\ oprf.k = Q + 1
    /\ oprf.pc = "done" /\ oprf.err = NoErr


\* the outcome of each check of Auth2 on the AuthMsg2 it received
Msg2Oprf == dhOprf3(cSess.password, amsg2.V, amsg2.B, cSess.r)
Msg2Envelope == AuthDec(Prefix(Msg2Oprf.rwd, 16), amsg2.EnvU)
Msg2Decoded == decodeEnvU(Msg2Envelope.pt)
Msg2SigOk ==
    VerifyPSS(Msg2Decoded.env.pubS,
              ClientFirstDigest(cSess.dhPubClient, amsg2.DhPubServer),
              amsg2.DhSig) = NoErr
Msg2MacOk ==
    verifyDhMac(dhSecrets(cSess.x, amsg2.DhPubServer).dhMacKey,
                Msg2Decoded.env.pubS, amsg2.DhMac)

\* C31: the error of Auth2 is that of the first check that fails in the
\* order group checks of v and b, envelope tag, envelope decoding, server
\* signature, server MAC, whatever the later checks would say; with an error
\* the secret is nil and the AuthMsg3 is empty.
C31_Auth2CheckOrder ==
    Auth2Ran =>
        /\ IF Msg2Oprf.err # NoErr THEN cErr = Msg2Oprf.err
           ELSE IF Msg2Envelope.err # NoErr THEN cErr = Msg2Envelope.err
           ELSE IF Msg2Decoded.err # NoErr THEN cErr = Msg2Decoded.err
           ELSE IF ~Msg2SigOk THEN cErr = "crypto/rsa: verification error"
           ELSE IF ~Msg2MacOk THEN cErr = "MAC mismatch"
           ELSE cErr = NoErr
        /\ cErr # NoErr =>
              /\ cSecret = Nil
              /\ (tampered \cap Msg3Fields) \subseteq {"AuthMsg3"} =>
                    amsg3 = EmptyAuthMsg3

\* two checks fail and the error is the first one's: v is rejected although
\* the envelope was changed too
C31_Witness ==
    /\ pc = "a2fail"
    /\ tampered = {"AuthMsg2.V", "AuthMsg2.EnvU"}
    /\ amsg2.V = 1
    /\ cErr = "v is in a small subgroup"
    /\ cSecret = Nil /\ amsg3 = EmptyAuthMsg3


\* the second session's transcript is not the one of the recorded run
OtherTranscript ==
    \/ again.sess.dhPubClient # sSess.dhPubClient
    \/ again.sess.dhPubServer # sSess.dhPubServer

\* C32: the AuthMsg3 of one run is rejected by Auth3 on every other session
\* of the same user whose client or server ephemeral public value differs.
C32_ReplayRejected ==
    (again # Nil /\ again.step = "Replay" /\ OtherTranscript) =>
        again.err # NoErr


InLoop == samp.pc \in {"draw", "sign", "blind"}

\* C33: under a fair random source every call of GeneratePrivateKey and
\* every call of dhOprf1 that has entered its loop returns.
C33_SamplingTerminates == InLoop ~> (samp.pc = "returned")

\* dhOprf1 has returned after a pass whose a was in the small subgroup
C33_Witness ==
    /\ samp.fn = "dhOprf1" /\ samp.pc = "returned" /\ samp.retried
    /\ ~IsInSmallSubgroup(samp.a, P)

C35_SmallSubgroupExact ==
    call.fn = "IsInSmallSubgroup" =>
        /\ call.out = (call.x \in {1, call.p - 1})
        /\ call.out = ((call.x * call.x) % call.p = 1)

C35_Witness ==
    /\ call.fn = "IsInSmallSubgroup" /\ call.p = 11
    /\ call.x = 10 /\ call.out = TRUE

RECURSIVE BigEndian(_)
\* the integer a byte slice encodes, most significant byte first
BigEndian(b) ==
    IF b = <<>> THEN 0
    ELSE 256 * BigEndian(SubSeq(b, 1, Len(b) - 1)) + b[Len(b)]

\* C36: Group.Bytes(x) has ceil(bitlen(p)/8) bytes and is the big-endian
\* encoding of x mod p; with p = 373, Bytes(1) = [0, 1], Bytes(300) = [1, 44].
C36_GroupBytesWidth ==
    call.fn = "Group.Bytes" =>
        /\ 8 * (Len(call.out) - 1) < BitLen(call.p)
        /\ BitLen(call.p) <= 8 * Len(call.out)
        /\ \A i \in 1..Len(call.out) : call.out[i] \in 0..255
        /\ BigEndian(call.out) = call.x % call.p
        /\ (call.p = 373 /\ call.x = 1) => call.out = <<0, 1>>
        /\ (call.p = 373 /\ call.x = 300) => call.out = <<1, 44>>

C36_Witness ==
    /\ call.fn = "Group.Bytes" /\ call.p = 373
    /\ call.x = 1 /\ call.out = <<0, 1>>

\* C39: dhgroup.Bytes(x) of package opaque is the big-endian encoding of
\* x mod p left-padded with zeros to bitLen/8 bytes, also when the encoding
\* fills the whole width.
C39_DhgroupBytesPadded ==
    call.fn = "dhgroup.Bytes" =>
        /\ call.panic = NoErr
        /\ Len(call.out) = call.bitLen \div 8
        /\ BigEndian(call.out) = call.x % call.p


\* C37: addPadding appends between 1 and blockSize bytes, each equal to their
\* number, a full block when the input length is a multiple of the block
\* size, and removePadding of the result is the input.
C37_PaddingRoundTrip ==
    call.fn \in {"addPadding", "removePadding"} =>
        LET n == Len(call.padded) - Len(call.in)
        IN  /\ n \in 1..call.bs
            /\ SubSeq(call.padded, 1, Len(call.in)) = call.in
            /\ \A i \in (Len(call.in) + 1)..Len(call.padded) :
                  call.padded[i] = Byte(n)
            /\ Len(call.in) % call.bs = 0 => n = call.bs
            /\ call.fn = "removePadding" =>
                  call.panic = NoErr /\ call.orig = call.in

\* a full block of 16 was appended to one block of bytes 16 and removed again
C37_Witness ==
    /\ call.fn = "removePadding" /\ call.bs = 16
    /\ call.in = [i \in 1..16 |-> Byte(16)]
    /\ Len(call.padded) = 32
    /\ call.orig = call.in


\* the first block is missing or no RSA PRIVATE KEY, or the second block is
\* missing or no RSA PUBLIC KEY
BlocksWrong(pemdata) ==
    IF Len(pemdata) < 1 THEN TRUE
    ELSE IF pemdata[1].Type # "RSA PRIVATE KEY" THEN TRUE
    ELSE IF Len(pemdata) < 2 THEN TRUE
    ELSE pemdata[2].Type # "RSA PUBLIC KEY"

\* C38: decodeEnvU(encodeEnvU(e)) is e with a nil error, and decodeEnvU
\* returns an error when the first block is missing or not an RSA PRIVATE KEY
\* or the second is missing or not an RSA PUBLIC KEY.
C38_EnvURoundTrip ==
    call.fn = "decodeEnvU" =>
        /\ call.variant = "" =>
              call.err = NoErr /\ call.out = call.env
        /\ BlocksWrong(call.pem) => call.err # NoErr /\ call.out = Nil

\* an envelope with different keys came back from its encoding
C38_Witness ==
    /\ call.fn = "decodeEnvU"
    /\ call.env = [privU |-> "U", pubS |-> PublicKey(ServerKey)]
    /\ call.variant = ""
    /\ call.err = NoErr /\ call.out = call.env

====
